---- MODULE Spec2Model ----
(***************************************************************************)
(* Model of the core-banking transaction engine of the repository          *)
(* (src/core_banking/engine.py), of the payment processor built on it      *)
(* (src/core_banking/payment_processor.py), of the loan engine             *)
(* (src/core_banking/loan_engine.py) and of the chat agent's transfer path *)
(* (src/agents/transaction_agent.py).                                      *)
(*                                                                         *)
(* The database is modelled as committed tables (accounts, transactions,   *)
(* ledger) plus, for every caller, the uncommitted work of its SQLAlchemy  *)
(* session (session) and the row locks its open database transaction holds *)
(* (locks).  db.flush() moves rows into the session's uncommitted work,    *)
(* db.commit() publishes it and releases the locks, db.rollback() discards *)
(* it and releases the locks.  with_for_update() is modelled as the        *)
(* row-level lock the source comments ask for ("Get account with row-level *)
(* lock for balance update").  Money is counted in cents.                  *)
(***************************************************************************)
EXTENDS Integers, Sequences, FiniteSets, Bags, TLC

VARIABLES
    accounts,      \* committed Account rows: account id -> row
    transactions,  \* committed Transaction rows (a set of records)
    ledger,        \* committed GeneralLedger rows (a set of records)
    nextId,        \* the next fresh Transaction.id (uuid4 in the source)
    session,       \* per caller: the uncommitted work of its Session
    locks,         \* per caller: row locks held by its open db transaction
    pc,            \* per caller: position in the running operation
    call,          \* per caller: the top-level operation and its arguments
    frame,         \* per caller: locals of the running process_transaction
    result,        \* per caller: outcome of the finished operation
    pre,           \* per caller: committed tables when the operation began
    payments,      \* committed PaymentInstruction rows, in order of creation
    bill_payments, \* committed BillPayment rows, in order of creation
    billers,       \* committed Biller rows (their names)
    loans,         \* committed Loan rows, in order of creation
    loan_payments, \* committed LoanPayment rows (a set of records)
    nextPaymentId, \* the next fresh LoanPayment.id (uuid4 in the source)
    investments,   \* committed Investment rows, in order of creation
    trades         \* committed Trade rows, in order of creation

vars == <<accounts, transactions, ledger, nextId, session, locks, pc, call,
          frame, result, pre, payments, bill_payments, billers, loans,
          loan_payments, nextPaymentId, investments, trades>>

\* The tables of the payment processor.
payvars == <<payments, bill_payments, billers>>

\* The tables of the loan engine.
loanvars == <<loans, loan_payments, nextPaymentId>>

\* The tables of the investment manager.
invvars == <<investments, trades>>

----------------------------------------------------------------------------
(* Bounds of the model *)

MaxAmount == 1
MaxBalance == 1
MaxTxns == 2
MaxPosts == 1
MaxPayments == 1

Procs == {"p1", "p2"}
AccountIds == {"a1", "a2", "a3"}
OpenAccounts == {"a1", "a2"}
Amounts == (-1)..MaxAmount
TxnIds == 1..(MaxTxns + 1)

TransactionTypes ==
    {"deposit", "credit", "refund", "withdrawal", "debit", "payment",
     "transfer", "reversal"}

----------------------------------------------------------------------------
(* Pure parts of TransactionEngine *)

FundsChecked(transaction_type) ==
    transaction_type \in {"withdrawal", "transfer", "payment"}

CreditClass(transaction_type) ==
    transaction_type \in {"deposit", "credit", "refund"}

DebitClass(transaction_type) ==
    transaction_type \in {"withdrawal", "debit", "payment", "transfer"}

NewBalanceSwapped(transaction_type, balance, amount) ==
    IF transaction_type \in {"deposit", "credit", "refund", "transfer"}
    THEN balance + amount
    ELSE balance - amount

NewBalance(transaction_type, balance, amount) ==
    IF CreditClass(transaction_type)
    THEN balance + amount
    ELSE balance - amount

Entry(txn, line, code, debit, credit) ==
    [transaction_id |-> txn, line |-> line, account_code |-> code,
     debit_amount |-> debit, credit_amount |-> credit]

LedgerEntries(txn, transaction_type, amount) ==
    IF transaction_type = "deposit"
    THEN {Entry(txn, 1, "1100", amount, 0), Entry(txn, 2, "2100", 0, amount)}
    ELSE IF transaction_type \in {"withdrawal", "payment"}
    THEN {Entry(txn, 1, "2100", amount, 0), Entry(txn, 2, "1100", 0, amount)}
    ELSE {Entry(txn, 1, "9999", amount, 0)}

ReversalType(transaction_type) ==
    CASE transaction_type = "deposit" -> "withdrawal"
      [] transaction_type = "withdrawal" -> "deposit"
      [] transaction_type = "credit" -> "debit"
      [] transaction_type = "debit" -> "credit"
      [] OTHER -> "reversal"

----------------------------------------------------------------------------
(* Sessions, locks and the committed tables *)

NoSession ==
    [accounts |-> <<>>, transactions |-> {}, ledger |-> {}, reversed |-> {}]

NoLocks == [a \in AccountIds |-> "none"]

NoCall == [op |-> "none"]

NoPre ==
    [accounts |-> <<>>, transactions |-> {}, ledger |-> {},
     payments |-> <<>>, bill_payments |-> <<>>, billers |-> {},
     loans |-> <<>>, loan_payments |-> {}, investments |-> <<>>,
     trades |-> <<>>]

NoFrame ==
    [leg |-> "none", account_id |-> "none", transaction_type |-> "none",
     amount |-> 0, balance |-> 0, available_balance |-> 0, new_balance |-> 0,
     txn |-> 0, entry |-> NoPre, objects |-> <<>>, payment |-> 0,
     loan |-> 0, investment |-> 0, trade |-> 0]

Committed ==
    [accounts |-> accounts, transactions |-> transactions, ledger |-> ledger,
     payments |-> payments, bill_payments |-> bill_payments,
     billers |-> billers, loans |-> loans, loan_payments |-> loan_payments,
     investments |-> investments, trades |-> trades]

AccountRow(balance) ==
    [balance |-> balance, available_balance |-> balance, status |-> "active"]

\* What a query in p's session sees: committed rows overlaid by its own work.
VisibleAccounts(p) ==
    [a \in (DOMAIN accounts) \cup (DOMAIN session[p].accounts) |->
        IF a \in DOMAIN session[p].accounts
        THEN session[p].accounts[a]
        ELSE accounts[a]]

MarkReversed(rows, ids) ==
    {IF t.id \in ids THEN [t EXCEPT !.status = "reversed"] ELSE t : t \in rows}

VisibleTransactions(p) ==
    MarkReversed(transactions \cup session[p].transactions,
                 session[p].reversed)

LockedByOther(p, a) ==
    \E q \in Procs \ {p} : locks[q][a] # "none"

\* db.commit(): publish the session's work, end the db transaction.
Commit(p) ==
    /\ accounts' = VisibleAccounts(p)
    /\ transactions' = VisibleTransactions(p)
    /\ ledger' = ledger \cup session[p].ledger
    /\ session' = [session EXCEPT ![p] = NoSession]
    /\ locks' = [locks EXCEPT ![p] = NoLocks]

\* db.rollback(): discard the session's work, end the db transaction.
Rollback(p) ==
    /\ session' = [session EXCEPT ![p] = NoSession]
    /\ locks' = [locks EXCEPT ![p] = NoLocks]
    /\ UNCHANGED <<accounts, transactions, ledger>>

Fail(p, message) ==
    /\ pc' = [pc EXCEPT ![p] = "raise"]
    /\ result' = [result EXCEPT ![p] = message]

----------------------------------------------------------------------------
Init ==
    /\ accounts \in [OpenAccounts -> {AccountRow(b) : b \in 0..MaxBalance}]
    /\ transactions = {}
    /\ ledger = {}
    /\ nextId = 1
    /\ session = [p \in Procs |-> NoSession]
    /\ locks = [p \in Procs |-> NoLocks]
    /\ pc = [p \in Procs |-> "idle"]
    /\ call = [p \in Procs |-> NoCall]
    /\ frame = [p \in Procs |-> NoFrame]
    /\ result = [p \in Procs |-> "none"]
    /\ pre = [p \in Procs |-> NoPre]
    /\ payments = <<>>
    /\ bill_payments = <<>>
    /\ billers = {}
    /\ loans = <<>>
    /\ loan_payments = {}
    /\ nextPaymentId = 1
    /\ investments = <<>>
    /\ trades = <<>>

----------------------------------------------------------------------------
(* TransactionEngine.process_transaction, one step per statement group *)

\* The caller may start an operation while rows remain within the model bound.
Begin(p, c, rows) ==
    /\ pc[p] = "idle"
    /\ Cardinality(transactions) + rows <= MaxTxns
    /\ call' = [call EXCEPT ![p] = c]
    /\ result' = [result EXCEPT ![p] = "none"]
    /\ pre' = [pre EXCEPT ![p] = Committed]

Enter(p, account_id, transaction_type, amount, leg) ==
    frame' = [frame EXCEPT ![p] =
                [NoFrame EXCEPT !.leg = leg, !.account_id = account_id,
                                !.transaction_type = transaction_type,
                                !.amount = amount, !.entry = Committed,
                                !.payment = frame[p].payment,
                                !.loan = frame[p].loan]]

Call_process_transaction(p) ==
    \E a \in AccountIds, t \in TransactionTypes, amt \in Amounts :
        /\ Begin(p, [op |-> "process_transaction", account_id |-> a,
                     transaction_type |-> t, amount |-> amt], 1)
        /\ Enter(p, a, t, amt, "single")
        /\ pc' = [pc EXCEPT ![p] = "pt_lock"]
        /\ UNCHANGED <<accounts, transactions, ledger, nextId, session, locks>>
        /\ UNCHANGED payvars
        /\ UNCHANGED loanvars
        /\ UNCHANGED invvars

\* db.query(Account).filter(...).with_for_update().first(), and the not-found
\* check.  The query waits while another db transaction holds the row.
PT_Lock(p) ==
    /\ pc[p] = "pt_lock"
    /\ LET a == frame[p].account_id IN
       IF a \notin DOMAIN VisibleAccounts(p)
       THEN /\ Fail(p, "Account not found")
            /\ UNCHANGED <<locks, frame>>
       ELSE /\ ~LockedByOther(p, a)
            /\ locks' = [locks EXCEPT ![p][a] = "for_update"]
            /\ frame' = [frame EXCEPT
                  ![p].balance = VisibleAccounts(p)[a].balance,
                  ![p].available_balance =
                      VisibleAccounts(p)[a].available_balance]
            /\ pc' = [pc EXCEPT ![p] = "pt_validate"]
            /\ UNCHANGED result
    /\ UNCHANGED <<accounts, transactions, ledger, nextId, session, call, pre>>
    /\ UNCHANGED payvars
    /\ UNCHANGED loanvars
    /\ UNCHANGED invvars

\* "Validate transaction" and "Calculate new balance".
PT_Validate(p) ==
    /\ pc[p] = "pt_validate"
    /\ LET f == frame[p] IN
       IF FundsChecked(f.transaction_type) /\ f.available_balance < f.amount
       THEN /\ Fail(p, "Insufficient funds")
            /\ UNCHANGED frame
       ELSE IF ~CreditClass(f.transaction_type)
               /\ ~DebitClass(f.transaction_type)
       THEN /\ Fail(p, "Unknown transaction type")
            /\ UNCHANGED frame
       ELSE /\ frame' = [frame EXCEPT ![p].new_balance =
                  NewBalance(f.transaction_type, f.balance, f.amount)]
            /\ pc' = [pc EXCEPT ![p] = "pt_insert"]
            /\ UNCHANGED result
    /\ UNCHANGED <<accounts, transactions, ledger, nextId, session, locks,
                   call, pre>>
    /\ UNCHANGED payvars
    /\ UNCHANGED loanvars
    /\ UNCHANGED invvars

TransactionRow(id, f) ==
    [id |-> id, account_id |-> f.account_id,
     transaction_type |-> f.transaction_type, amount |-> f.amount,
     balance_after |-> f.new_balance, status |-> "completed"]

\* As PT_Insert, but the row is published at once (a commit in place of
\* the flush).
PT_InsertPublished(p) ==
    /\ pc[p] = "pt_insert"
    /\ transactions' = transactions \cup {TransactionRow(nextId, frame[p])}
    /\ frame' = [frame EXCEPT ![p].txn = nextId]
    /\ nextId' = nextId + 1
    /\ pc' = [pc EXCEPT ![p] = "pt_balance"]
    /\ UNCHANGED <<accounts, ledger, session, locks, call, result, pre>>
    /\ UNCHANGED payvars
    /\ UNCHANGED loanvars
    /\ UNCHANGED invvars

\* Transaction(...); db.add(transaction); db.flush()
PT_Insert(p) ==
    /\ pc[p] = "pt_insert"
    /\ session' = [session EXCEPT ![p].transactions =
                       @ \cup {TransactionRow(nextId, frame[p])}]
    /\ frame' = [frame EXCEPT ![p].txn = nextId]
    /\ nextId' = nextId + 1
    /\ pc' = [pc EXCEPT ![p] = "pt_balance"]
    /\ UNCHANGED <<accounts, transactions, ledger, locks, call, result, pre>>
    /\ UNCHANGED payvars
    /\ UNCHANGED loanvars
    /\ UNCHANGED invvars

\* account.balance = new_balance; account.available_balance = new_balance
PT_Balance(p) ==
    /\ pc[p] = "pt_balance"
    /\ LET a == frame[p].account_id
           row == [VisibleAccounts(p)[a] EXCEPT
                       !.balance = frame[p].new_balance,
                       !.available_balance = frame[p].new_balance]
       IN session' = [session EXCEPT ![p].accounts =
              [x \in (DOMAIN @) \cup {a} |-> IF x = a THEN row ELSE @[x]]]
    /\ pc' = [pc EXCEPT ![p] = "pt_ledger"]
    /\ UNCHANGED <<accounts, transactions, ledger, nextId, locks, call, frame,
                   result, pre>>
    /\ UNCHANGED payvars
    /\ UNCHANGED loanvars
    /\ UNCHANGED invvars

\* self._create_ledger_entries(db, transaction, account, type, amount)
PT_Ledger(p) ==
    /\ pc[p] = "pt_ledger"
    /\ session' = [session EXCEPT ![p].ledger =
          @ \cup LedgerEntries(frame[p].txn, frame[p].transaction_type,
                               frame[p].amount)]
    /\ pc' = [pc EXCEPT ![p] = "pt_commit"]
    /\ UNCHANGED <<accounts, transactions, ledger, nextId, locks, call, frame,
                   result, pre>>
    /\ UNCHANGED payvars
    /\ UNCHANGED loanvars
    /\ UNCHANGED invvars

\* Where process_transaction returns to, by the caller that entered it.
AfterLeg(leg) ==
    CASE leg = "single" -> "done"
      [] leg = "debit" -> "tf_credit"
      [] leg = "credit" -> "tf_exit"
      [] leg = "reversal" -> "rt_mark"
      [] leg = "internal" -> "ep_debit"
      [] leg = "payment" -> "ep_complete"
      [] leg = "initial" -> "ca_commit"
      [] leg = "disburse" -> "dl_activate"

\* As PT_Commit, but the debit leg of a transfer leaves its work and its
\* row lock to the commit of transfer_funds.
PT_CommitWithTransfer(p) ==
    /\ pc[p] = "pt_commit"
    /\ IF frame[p].leg = "debit"
       THEN UNCHANGED <<accounts, transactions, ledger, session, locks>>
       ELSE Commit(p)
    /\ pc' = [pc EXCEPT ![p] = AfterLeg(frame[p].leg)]
    /\ result' = [result EXCEPT ![p] =
                      IF frame[p].leg = "single" THEN "ok" ELSE @]
    /\ UNCHANGED <<nextId, call, frame, pre>>
    /\ UNCHANGED payvars
    /\ UNCHANGED loanvars
    /\ UNCHANGED invvars

\* atomic_transaction of process_transaction leaves normally: db.commit()
PT_Commit(p) ==
    /\ pc[p] = "pt_commit"
    /\ Commit(p)
    /\ pc' = [pc EXCEPT ![p] = AfterLeg(frame[p].leg)]
    /\ result' = [result EXCEPT ![p] =
                      IF frame[p].leg = "single" THEN "ok" ELSE @]
    /\ UNCHANGED <<nextId, call, frame, pre>>
    /\ UNCHANGED payvars
    /\ UNCHANGED loanvars
    /\ UNCHANGED invvars

\* Where an exception raised inside process_transaction is caught: by the
\* except clause of execute_payment, or by nothing before the caller.
AfterRaise(leg) ==
    IF leg \in {"internal", "payment"} THEN "ep_failed" ELSE "done"

\* An exception leaves every enclosing atomic_transaction: each does
\* db.rollback() and re-raises, and the operation ends with the error
\* unless execute_payment catches it first.
Raise(p) ==
    /\ pc[p] = "raise"
    /\ Rollback(p)
    /\ pc' = [pc EXCEPT ![p] = AfterRaise(frame[p].leg)]
    /\ UNCHANGED <<nextId, call, frame, result, pre>>
    /\ UNCHANGED payvars
    /\ UNCHANGED loanvars
    /\ UNCHANGED invvars

\* The caller takes the result; its next operation starts afresh.
Return(p) ==
    /\ pc[p] = "done"
    /\ pc' = [pc EXCEPT ![p] = "idle"]
    /\ call' = [call EXCEPT ![p] = NoCall]
    /\ frame' = [frame EXCEPT ![p] = NoFrame]
    /\ result' = [result EXCEPT ![p] = "none"]
    /\ pre' = [pre EXCEPT ![p] = NoPre]
    /\ UNCHANGED <<accounts, transactions, ledger, nextId, session, locks>>
    /\ UNCHANGED payvars
    /\ UNCHANGED loanvars
    /\ UNCHANGED invvars

----------------------------------------------------------------------------
(* TransactionEngine.transfer_funds *)

Call_transfer_funds(p) ==
    \E from \in AccountIds, to \in AccountIds, amt \in Amounts :
        /\ Begin(p, [op |-> "transfer_funds", from_account_id |-> from,
                     to_account_id |-> to, amount |-> amt], 2)
        /\ Enter(p, from, "transfer", amt, "debit")
        /\ pc' = [pc EXCEPT ![p] = "pt_lock"]
        /\ UNCHANGED <<accounts, transactions, ledger, nextId, session, locks>>
        /\ UNCHANGED payvars
        /\ UNCHANGED loanvars
        /\ UNCHANGED invvars

\* The debit leg returned: "Process credit to destination account".
TF_Credit(p) ==
    /\ pc[p] = "tf_credit"
    /\ Enter(p, call[p].to_account_id, "deposit", call[p].amount, "credit")
    /\ pc' = [pc EXCEPT ![p] = "pt_lock"]
    /\ UNCHANGED <<accounts, transactions, ledger, nextId, session, locks,
                   call, result, pre>>
    /\ UNCHANGED payvars
    /\ UNCHANGED loanvars
    /\ UNCHANGED invvars

\* Both legs returned: the outer atomic_transaction does db.commit().
TF_Exit(p) ==
    /\ pc[p] = "tf_exit"
    /\ Commit(p)
    /\ pc' = [pc EXCEPT ![p] = "done"]
    /\ result' = [result EXCEPT ![p] = "ok"]
    /\ UNCHANGED <<nextId, call, frame, pre>>
    /\ UNCHANGED payvars
    /\ UNCHANGED loanvars
    /\ UNCHANGED invvars

----------------------------------------------------------------------------
(* TransactionEngine.reverse_transaction *)

Reversible(id) ==
    \E t \in transactions : t.id = id /\ t.status = "completed"

Call_reverse_transaction(p) ==
    \E id \in TxnIds :
        /\ Begin(p, [op |-> "reverse_transaction", transaction_id |-> id],
                 IF Reversible(id) THEN 1 ELSE 0)
        /\ pc' = [pc EXCEPT ![p] = "rt_lookup"]
        /\ UNCHANGED <<accounts, transactions, ledger, nextId, session, locks,
                       frame>>
        /\ UNCHANGED payvars
        /\ UNCHANGED loanvars
        /\ UNCHANGED invvars

\* As RT_Lookup, but without the check of the original's status.
RT_LookupAnyStatus(p) ==
    /\ pc[p] = "rt_lookup"
    /\ LET found == {t \in VisibleTransactions(p) :
                        t.id = call[p].transaction_id} IN
       IF found = {}
       THEN /\ Fail(p, "Transaction not found")
            /\ UNCHANGED frame
       ELSE LET original == CHOOSE t \in found : TRUE IN
            /\ Enter(p, original.account_id,
                     ReversalType(original.transaction_type),
                     original.amount, "reversal")
            /\ pc' = [pc EXCEPT ![p] = "pt_lock"]
            /\ UNCHANGED result
    /\ UNCHANGED <<accounts, transactions, ledger, nextId, session, locks,
                   call, pre>>
    /\ UNCHANGED payvars
    /\ UNCHANGED loanvars
    /\ UNCHANGED invvars

\* "Get original transaction", the two checks, "Determine reversal type",
\* and the call of process_transaction.
RT_Lookup(p) ==
    /\ pc[p] = "rt_lookup"
    /\ LET found == {t \in VisibleTransactions(p) :
                        t.id = call[p].transaction_id} IN
       IF found = {}
       THEN /\ Fail(p, "Transaction not found")
            /\ UNCHANGED frame
       ELSE LET original == CHOOSE t \in found : TRUE IN
            IF original.status # "completed"
            THEN /\ Fail(p, "Can only reverse completed transactions")
                 /\ UNCHANGED frame
            ELSE /\ Enter(p, original.account_id,
                          ReversalType(original.transaction_type),
                          original.amount, "reversal")
                 /\ pc' = [pc EXCEPT ![p] = "pt_lock"]
                 /\ UNCHANGED result
    /\ UNCHANGED <<accounts, transactions, ledger, nextId, session, locks,
                   call, pre>>
    /\ UNCHANGED payvars
    /\ UNCHANGED loanvars
    /\ UNCHANGED invvars

\* original.status = "reversed"
RT_Mark(p) ==
    /\ pc[p] = "rt_mark"
    /\ session' = [session EXCEPT ![p].reversed =
                       @ \cup {call[p].transaction_id}]
    /\ pc' = [pc EXCEPT ![p] = "rt_exit"]
    /\ UNCHANGED <<accounts, transactions, ledger, nextId, locks, call, frame,
                   result, pre>>
    /\ UNCHANGED payvars
    /\ UNCHANGED loanvars
    /\ UNCHANGED invvars

\* The atomic_transaction of reverse_transaction does db.commit().
RT_Exit(p) ==
    /\ pc[p] = "rt_exit"
    /\ Commit(p)
    /\ pc' = [pc EXCEPT ![p] = "done"]
    /\ result' = [result EXCEPT ![p] = "ok"]
    /\ UNCHANGED <<nextId, call, frame, pre>>
    /\ UNCHANGED payvars
    /\ UNCHANGED loanvars
    /\ UNCHANGED invvars

----------------------------------------------------------------------------
(* TransactionAgent._process_transfer, the chat agent's transfer *)

\* _handle_fund_transfer asks for the amount again when it is missing or zero.
Call_agent_transfer(p) ==
    \E from \in AccountIds, to \in AccountIds, amt \in Amounts \ {0} :
        /\ Begin(p, [op |-> "agent_transfer", from_account |-> from,
                     to_account |-> to, amount |-> amt], 2)
        /\ pc' = [pc EXCEPT ![p] = "at_read"]
        /\ UNCHANGED <<accounts, transactions, ledger, nextId, session, locks,
                       frame>>
        /\ UNCHANGED payvars
        /\ UNCHANGED loanvars
        /\ UNCHANGED invvars

\* The two plain queries (no lock) and the checks between them.
AT_Read(p) ==
    /\ pc[p] = "at_read"
    /\ LET c == call[p]
           seen == VisibleAccounts(p)
       IN
       IF c.from_account \notin DOMAIN seen
       THEN /\ result' = [result EXCEPT ![p] = "Source account not found"]
            /\ pc' = [pc EXCEPT ![p] = "at_commit"]
            /\ UNCHANGED frame
       ELSE IF seen[c.from_account].available_balance < c.amount
       THEN /\ result' = [result EXCEPT ![p] = "Insufficient funds"]
            /\ pc' = [pc EXCEPT ![p] = "at_commit"]
            /\ UNCHANGED frame
       ELSE IF c.to_account \notin DOMAIN seen
       THEN /\ result' = [result EXCEPT ![p] =
                              "Destination account not found"]
            /\ pc' = [pc EXCEPT ![p] = "at_commit"]
            /\ UNCHANGED frame
       ELSE /\ frame' = [frame EXCEPT ![p] =
                  [NoFrame EXCEPT !.leg = "agent", !.entry = Committed,
                       !.objects = [a \in {c.from_account, c.to_account} |->
                                       seen[a]]]]
            /\ pc' = [pc EXCEPT ![p] = "at_flush"]
            /\ UNCHANGED result
    /\ UNCHANGED <<accounts, transactions, ledger, nextId, session, locks,
                   call, pre>>
    /\ UNCHANGED payvars
    /\ UNCHANGED loanvars
    /\ UNCHANGED invvars

\* source.balance -= amount ... dest.balance += amount on the objects read,
\* the two Transaction rows, db.add, db.flush().  The flush writes the account
\* rows, so it waits for a row another db transaction holds and then holds
\* them itself.  No GeneralLedger row is written.
AT_Flush(p) ==
    /\ pc[p] = "at_flush"
    /\ LET c == call[p]
           o0 == frame[p].objects
           o1 == [o0 EXCEPT
                   ![c.from_account].balance = @ - c.amount,
                   ![c.from_account].available_balance = @ - c.amount]
           o2 == [o1 EXCEPT
                   ![c.to_account].balance = @ + c.amount,
                   ![c.to_account].available_balance = @ + c.amount]
           debit_txn ==
               [id |-> nextId, account_id |-> c.from_account,
                transaction_type |-> "debit", amount |-> c.amount,
                balance_after |-> o1[c.from_account].balance,
                status |-> "completed"]
           credit_txn ==
               [id |-> nextId + 1, account_id |-> c.to_account,
                transaction_type |-> "credit", amount |-> c.amount,
                balance_after |-> o2[c.to_account].balance,
                status |-> "completed"]
       IN
       /\ \A a \in DOMAIN o0 : ~LockedByOther(p, a)
       /\ locks' = [locks EXCEPT ![p] =
              [a \in AccountIds |->
                  IF a \in DOMAIN o0 /\ @[a] = "none" THEN "update" ELSE @[a]]]
       /\ session' = [session EXCEPT
              ![p].accounts = [a \in (DOMAIN @) \cup (DOMAIN o2) |->
                                  IF a \in DOMAIN o2 THEN o2[a] ELSE @[a]],
              ![p].transactions = @ \cup {debit_txn, credit_txn}]
    /\ nextId' = nextId + 2
    /\ pc' = [pc EXCEPT ![p] = "at_commit"]
    /\ UNCHANGED <<accounts, transactions, ledger, call, frame, result, pre>>
    /\ UNCHANGED payvars
    /\ UNCHANGED loanvars
    /\ UNCHANGED invvars

\* Leaving "with db_manager.get_session() as db": session.commit()
AT_Commit(p) ==
    /\ pc[p] = "at_commit"
    /\ Commit(p)
    /\ pc' = [pc EXCEPT ![p] = "done"]
    /\ result' = [result EXCEPT ![p] = IF @ = "none" THEN "ok" ELSE @]
    /\ UNCHANGED <<nextId, call, frame, pre>>
    /\ UNCHANGED payvars
    /\ UNCHANGED loanvars
    /\ UNCHANGED invvars

----------------------------------------------------------------------------
(* BankingEngine.close_account *)

Call_close_account(p) ==
    \E a \in AccountIds :
        /\ Begin(p, [op |-> "close_account", account_id |-> a], 0)
        /\ pc' = [pc EXCEPT ![p] = "close"]
        /\ UNCHANGED <<accounts, transactions, ledger, nextId, session, locks,
                       frame>>
        /\ UNCHANGED payvars
        /\ UNCHANGED loanvars
        /\ UNCHANGED invvars

\* As CloseAccount, but without the check of the balance.
CloseAccountAnyBalance(p) ==
    /\ pc[p] = "close"
    /\ LET a == call[p].account_id IN
       IF a \notin DOMAIN VisibleAccounts(p)
       THEN /\ Fail(p, "Account not found")
            /\ UNCHANGED accounts
       ELSE /\ ~LockedByOther(p, a)
            /\ accounts' = [accounts EXCEPT ![a].status = "closed"]
            /\ pc' = [pc EXCEPT ![p] = "done"]
            /\ result' = [result EXCEPT ![p] = "ok"]
    /\ UNCHANGED <<transactions, ledger, nextId, session, locks, call, frame,
                   pre>>
    /\ UNCHANGED payvars
    /\ UNCHANGED loanvars
    /\ UNCHANGED invvars

\* The plain query, the two checks, account.status = "closed", db.commit()
CloseAccount(p) ==
    /\ pc[p] = "close"
    /\ LET a == call[p].account_id IN
       IF a \notin DOMAIN VisibleAccounts(p)
       THEN /\ Fail(p, "Account not found")
            /\ UNCHANGED accounts
       ELSE IF VisibleAccounts(p)[a].balance # 0
       THEN /\ Fail(p, "Cannot close account with non-zero balance")
            /\ UNCHANGED accounts
       ELSE /\ ~LockedByOther(p, a)
            /\ accounts' = [accounts EXCEPT ![a].status = "closed"]
            /\ pc' = [pc EXCEPT ![p] = "done"]
            /\ result' = [result EXCEPT ![p] = "ok"]
    /\ UNCHANGED <<transactions, ledger, nextId, session, locks, call, frame,
                   pre>>
    /\ UNCHANGED payvars
    /\ UNCHANGED loanvars
    /\ UNCHANGED invvars

----------------------------------------------------------------------------
(* BankingEngine.create_account *)

\* The initial_deposit a caller passes: none (the empty sequence) or one of
\* the amounts.
InitialDeposits == {<<>>} \cup {<<amt>> : amt \in Amounts}

\* "if initial_deposit and initial_deposit > 0"
DepositGiven(initial_deposit) ==
    initial_deposit # <<>> /\ initial_deposit[1] > 0

\* A new account can be created while an account id of the model is free.
Call_create_account(p) ==
    \E d \in InitialDeposits :
        /\ AccountIds \ DOMAIN accounts # {}
        /\ Begin(p, [op |-> "create_account", initial_deposit |-> d],
                 IF DepositGiven(d) THEN 1 ELSE 0)
        /\ pc' = [pc EXCEPT ![p] = "ca_add"]
        /\ UNCHANGED <<accounts, transactions, ledger, nextId, session, locks,
                       frame>>
        /\ UNCHANGED payvars
        /\ UNCHANGED loanvars
        /\ UNCHANGED invvars

\* As CA_Add, but the initial deposit is never posted.
CA_AddWithoutDeposit(p) ==
    /\ pc[p] = "ca_add"
    /\ \E a \in AccountIds \ DOMAIN VisibleAccounts(p) :
          /\ session' = [session EXCEPT ![p].accounts =
                 [x \in (DOMAIN @) \cup {a} |->
                     IF x = a THEN AccountRow(0) ELSE @[x]]]
          /\ frame' = [frame EXCEPT ![p].account_id = a]
          /\ pc' = [pc EXCEPT ![p] = "ca_commit"]
    /\ UNCHANGED <<accounts, transactions, ledger, nextId, locks, call,
                   result, pre>>
    /\ UNCHANGED payvars
    /\ UNCHANGED loanvars
    /\ UNCHANGED invvars

\* Account(balance 0, available_balance 0, status active), db.add, db.flush,
\* and the call of process_transaction for an initial deposit above zero.
CA_Add(p) ==
    /\ pc[p] = "ca_add"
    /\ \E a \in AccountIds \ DOMAIN VisibleAccounts(p) :
          /\ session' = [session EXCEPT ![p].accounts =
                 [x \in (DOMAIN @) \cup {a} |->
                     IF x = a THEN AccountRow(0) ELSE @[x]]]
          /\ IF DepositGiven(call[p].initial_deposit)
             THEN /\ Enter(p, a, "deposit", call[p].initial_deposit[1],
                           "initial")
                  /\ pc' = [pc EXCEPT ![p] = "pt_lock"]
             ELSE /\ frame' = [frame EXCEPT ![p].account_id = a]
                  /\ pc' = [pc EXCEPT ![p] = "ca_commit"]
    /\ UNCHANGED <<accounts, transactions, ledger, nextId, locks, call,
                   result, pre>>
    /\ UNCHANGED payvars
    /\ UNCHANGED loanvars
    /\ UNCHANGED invvars

\* db.commit() and the return of the account.
CA_Commit(p) ==
    /\ pc[p] = "ca_commit"
    /\ Commit(p)
    /\ pc' = [pc EXCEPT ![p] = "done"]
    /\ result' = [result EXCEPT ![p] = "ok"]
    /\ UNCHANGED <<nextId, call, frame, pre>>
    /\ UNCHANGED payvars
    /\ UNCHANGED loanvars
    /\ UNCHANGED invvars

----------------------------------------------------------------------------
(* PaymentProcessor: fees and the requirements of the payment methods *)

PaymentMethods == {"ach", "wire", "card", "rtp", "internal"}

\* PaymentProcessor.FEES, in cents.
FEES == [ach |-> 25, wire |-> 2500, card |-> 0, rtp |-> 50, internal |-> 0]

\* As Fee, but with the card fee read from the table like the other fees.
FeeFromTable(payment_method, amount) ==
    IF payment_method \notin PaymentMethods
    THEN 0
    ELSE FEES[payment_method]

\* _calculate_fee: 2.9% of the amount for a card payment, the table's fee
\* for the other methods, nothing for a string that names no method.  The
\* amounts of the model are whole multiples of ten dollars, for which the
\* 2.9% are a whole number of cents.
Fee(payment_method, amount) ==
    IF payment_method \notin PaymentMethods
    THEN 0
    ELSE IF payment_method = "card"
    THEN (amount * 29) \div 1000
    ELSE FEES[payment_method]

\* As ValidatePaymentRequirements, but without the check of the SWIFT code.
ValidateWithoutSwift(payment_method, beneficiary_account, routing_number, swift_code) ==
    IF payment_method = "ach"
    THEN IF beneficiary_account = "" \/ routing_number = ""
         THEN "ACH payments require beneficiary account and routing number"
         ELSE ""
    ELSE IF payment_method = "wire"
    THEN IF beneficiary_account = ""
         THEN "Wire transfers require beneficiary account"
         ELSE ""
    ELSE ""

\* _validate_payment_requirements: the message of the error it raises, or ""
\* when it returns.  A missing argument (None) is the empty string.
ValidatePaymentRequirements(payment_method, beneficiary_account, routing_number, swift_code) ==
    IF payment_method = "ach"
    THEN IF beneficiary_account = "" \/ routing_number = ""
         THEN "ACH payments require beneficiary account and routing number"
         ELSE ""
    ELSE IF payment_method = "wire"
    THEN IF beneficiary_account = ""
         THEN "Wire transfers require beneficiary account"
         ELSE IF swift_code # "" /\ Len(swift_code) \notin {8, 11}
         THEN "Invalid SWIFT code format"
         ELSE ""
    ELSE ""

\* The method, beneficiary account, routing number and SWIFT code a caller
\* passes to initiate_payment; "check" names no payment method, "x9" is an
\* account at another bank, an internal payment names an account number of
\* this bank (or one that no account has).
PaymentRequests ==
    [payment_method : {"ach"}, beneficiary_account : {"", "x9"},
     routing_number : {"", "021000021"}, swift_code : {""}]
    \cup [payment_method : {"wire"}, beneficiary_account : {"x9"},
          routing_number : {""},
          swift_code : {"", "DEUTDEFF", "DEUTDEFF5", "DEUTDEFF500"}]
    \cup [payment_method : {"wire", "card", "rtp", "check"},
          beneficiary_account : {""}, routing_number : {""},
          swift_code : {""}]
    \cup [payment_method : {"internal"},
          beneficiary_account : {""} \cup AccountIds,
          routing_number : {""}, swift_code : {""}]

\* The amounts of payments and bills: ten dollars, nothing, and ten dollars
\* with the sign reversed.
PayAmounts == {-1000, 0, 1000}

ScheduledDates == {"", "today", "later"}

PaymentIds == 1..(MaxPayments + 1)

BillerNames == {"power", "water"}

\* The amounts of bills: those of payments, and forty dollars, more than
\* any account of the model holds.
BillAmounts == PayAmounts \cup {4000}

\* As PaymentRow, but an omitted date is stored as it was passed.
PaymentRowUndated(c) ==
    [account_id |-> c.account_id, payment_method |-> c.payment_method,
     amount |-> c.amount, beneficiary_account |-> c.beneficiary_account,
     status |-> "pending", scheduled_date |-> c.scheduled_date,
     failure_reason |-> ""]

\* PaymentInstruction(...) of initiate_payment.
PaymentRow(c) ==
    [account_id |-> c.account_id, payment_method |-> c.payment_method,
     amount |-> c.amount, beneficiary_account |-> c.beneficiary_account,
     status |-> "pending",
     scheduled_date |->
         IF c.scheduled_date = "" THEN "today" ELSE c.scheduled_date,
     failure_reason |-> ""]

----------------------------------------------------------------------------
(* PaymentProcessor.initiate_payment *)

Call_initiate_payment(p) ==
    \E a \in AccountIds, r \in PaymentRequests, amt \in PayAmounts,
       d \in ScheduledDates :
        /\ Len(payments) < MaxPayments
        /\ Begin(p, [op |-> "initiate_payment", account_id |-> a,
                     payment_method |-> r.payment_method, amount |-> amt,
                     beneficiary_account |-> r.beneficiary_account,
                     routing_number |-> r.routing_number,
                     swift_code |-> r.swift_code, scheduled_date |-> d], 1)
        /\ pc' = [pc EXCEPT ![p] = "ip_validate"]
        /\ UNCHANGED <<accounts, transactions, ledger, nextId, session, locks,
                       frame>>
        /\ UNCHANGED payvars
        /\ UNCHANGED loanvars
        /\ UNCHANGED invvars

\* "Validate account", "Validate sufficient funds", "Validate payment method
\* specific requirements"
IP_Validate(p) ==
    /\ pc[p] = "ip_validate"
    /\ LET c == call[p]
           seen == VisibleAccounts(p)
           error == ValidatePaymentRequirements(
                        c.payment_method, c.beneficiary_account,
                        c.routing_number, c.swift_code)
       IN
       IF c.account_id \notin DOMAIN seen
       THEN Fail(p, "Account not found")
       ELSE IF seen[c.account_id].status # "active"
       THEN Fail(p, "Account is not active")
       ELSE IF seen[c.account_id].available_balance
                 < c.amount + Fee(c.payment_method, c.amount)
       THEN Fail(p, "Insufficient funds")
       ELSE IF error # ""
       THEN Fail(p, error)
       ELSE /\ pc' = [pc EXCEPT ![p] = "ip_persist"]
            /\ UNCHANGED result
    /\ UNCHANGED <<accounts, transactions, ledger, nextId, session, locks,
                   call, frame, pre>>
    /\ UNCHANGED payvars
    /\ UNCHANGED loanvars
    /\ UNCHANGED invvars

\* "Create payment instruction": db.add(payment), db.commit(), and the call
\* of execute_payment when the payment is scheduled for today.
IP_Persist(p) ==
    /\ pc[p] = "ip_persist"
    /\ payments' = Append(payments, PaymentRow(call[p]))
    /\ frame' = [frame EXCEPT ![p].payment = Len(payments) + 1]
    /\ IF PaymentRow(call[p]).scheduled_date = "today"
       THEN /\ pc' = [pc EXCEPT ![p] = "ep_lookup"]
            /\ UNCHANGED result
       ELSE /\ pc' = [pc EXCEPT ![p] = "done"]
            /\ result' = [result EXCEPT ![p] = "ok"]
    /\ UNCHANGED <<accounts, transactions, ledger, nextId, session, locks,
                   call, pre, bill_payments, billers>>
    /\ UNCHANGED loanvars
    /\ UNCHANGED invvars

----------------------------------------------------------------------------
(* PaymentProcessor.execute_payment *)

\* Whether the execution of instruction id would post its debit.
RowsOfExecution(id) ==
    IF id \in DOMAIN payments /\ payments[id].status = "pending"
    THEN 1
    ELSE 0

Call_execute_payment(p) ==
    \E id \in PaymentIds :
        /\ Begin(p, [op |-> "execute_payment", payment_id |-> id],
                 RowsOfExecution(id))
        /\ frame' = [frame EXCEPT ![p].payment = id]
        /\ pc' = [pc EXCEPT ![p] = "ep_lookup"]
        /\ UNCHANGED <<accounts, transactions, ledger, nextId, session, locks>>
        /\ UNCHANGED payvars
        /\ UNCHANGED loanvars
        /\ UNCHANGED invvars

\* As EP_Lookup, but without the check of the instruction's status.
EP_LookupAnyStatus(p) ==
    /\ pc[p] = "ep_lookup"
    /\ IF frame[p].payment \notin DOMAIN payments
       THEN Fail(p, "Payment instruction not found")
       ELSE /\ pc' = [pc EXCEPT ![p] = "ep_dispatch"]
            /\ UNCHANGED result
    /\ UNCHANGED <<accounts, transactions, ledger, nextId, session, locks,
                   call, frame, pre>>
    /\ UNCHANGED payvars
    /\ UNCHANGED loanvars
    /\ UNCHANGED invvars

\* The query of the instruction and the two checks before the try block.
EP_Lookup(p) ==
    /\ pc[p] = "ep_lookup"
    /\ IF frame[p].payment \notin DOMAIN payments
       THEN Fail(p, "Payment instruction not found")
       ELSE IF payments[frame[p].payment].status # "pending"
       THEN Fail(p, "Payment not in pending status")
       ELSE /\ pc' = [pc EXCEPT ![p] = "ep_dispatch"]
            /\ UNCHANGED result
    /\ UNCHANGED <<accounts, transactions, ledger, nextId, session, locks,
                   call, frame, pre>>
    /\ UNCHANGED payvars
    /\ UNCHANGED loanvars
    /\ UNCHANGED invvars

\* "Process payment based on method": the credit of an internal payment to
\* the beneficiary's account when this bank has it, nothing for the other
\* methods, ValueError for a string that names no method.
EP_Dispatch(p) ==
    /\ pc[p] = "ep_dispatch"
    /\ LET payment == payments[frame[p].payment] IN
       IF payment.payment_method \notin PaymentMethods
       THEN /\ result' = [result EXCEPT ![p] = "Unsupported payment method"]
            /\ pc' = [pc EXCEPT ![p] = "ep_failed"]
            /\ UNCHANGED frame
       ELSE IF /\ payment.payment_method = "internal"
               /\ payment.beneficiary_account # ""
               /\ payment.beneficiary_account \in DOMAIN VisibleAccounts(p)
       THEN /\ Enter(p, payment.beneficiary_account, "deposit",
                     payment.amount, "internal")
            /\ pc' = [pc EXCEPT ![p] = "pt_lock"]
            /\ UNCHANGED result
       ELSE /\ pc' = [pc EXCEPT ![p] = "ep_debit"]
            /\ UNCHANGED <<frame, result>>
    /\ UNCHANGED <<accounts, transactions, ledger, nextId, session, locks,
                   call, pre>>
    /\ UNCHANGED payvars
    /\ UNCHANGED loanvars
    /\ UNCHANGED invvars

\* "Debit account": process_transaction of type payment for amount + fee.
EP_Debit(p) ==
    /\ pc[p] = "ep_debit"
    /\ LET payment == payments[frame[p].payment] IN
       Enter(p, payment.account_id, "payment",
             payment.amount + Fee(payment.payment_method, payment.amount),
             "payment")
    /\ pc' = [pc EXCEPT ![p] = "pt_lock"]
    /\ UNCHANGED <<accounts, transactions, ledger, nextId, session, locks,
                   call, result, pre>>
    /\ UNCHANGED payvars
    /\ UNCHANGED loanvars
    /\ UNCHANGED invvars

\* "Update payment status": payment.status = "completed", db.commit()
EP_Complete(p) ==
    /\ pc[p] = "ep_complete"
    /\ payments' = [payments EXCEPT ![frame[p].payment].status = "completed"]
    /\ Commit(p)
    /\ pc' = [pc EXCEPT ![p] = "done"]
    /\ result' = [result EXCEPT ![p] = "ok"]
    /\ UNCHANGED <<nextId, call, frame, pre, bill_payments, billers>>
    /\ UNCHANGED loanvars
    /\ UNCHANGED invvars

\* except Exception: payment.status = "failed", failure_reason, db.commit(),
\* raise
EP_Failed(p) ==
    /\ pc[p] = "ep_failed"
    /\ payments' = [payments EXCEPT
                       ![frame[p].payment].status = "failed",
                       ![frame[p].payment].failure_reason = result[p]]
    /\ Commit(p)
    /\ pc' = [pc EXCEPT ![p] = "done"]
    /\ UNCHANGED <<nextId, call, frame, result, pre, bill_payments, billers>>
    /\ UNCHANGED loanvars
    /\ UNCHANGED invvars

----------------------------------------------------------------------------
(* PaymentProcessor.cancel_payment *)

Call_cancel_payment(p) ==
    \E id \in PaymentIds :
        /\ Begin(p, [op |-> "cancel_payment", payment_id |-> id], 0)
        /\ frame' = [frame EXCEPT ![p].payment = id]
        /\ pc' = [pc EXCEPT ![p] = "cancel"]
        /\ UNCHANGED <<accounts, transactions, ledger, nextId, session, locks>>
        /\ UNCHANGED payvars
        /\ UNCHANGED loanvars
        /\ UNCHANGED invvars

\* As CancelPayment, but without the check of the instruction's status.
CancelPaymentAnyStatus(p) ==
    /\ pc[p] = "cancel"
    /\ IF frame[p].payment \notin DOMAIN payments
       THEN /\ Fail(p, "Payment not found")
            /\ UNCHANGED <<accounts, transactions, ledger, session, locks,
                           payments>>
       ELSE /\ payments' = [payments EXCEPT
                               ![frame[p].payment].status = "cancelled",
                               ![frame[p].payment].failure_reason = "Cancelled"]
            /\ Commit(p)
            /\ pc' = [pc EXCEPT ![p] = "done"]
            /\ result' = [result EXCEPT ![p] = "ok"]
    /\ UNCHANGED <<nextId, call, frame, pre, bill_payments, billers>>
    /\ UNCHANGED loanvars
    /\ UNCHANGED invvars

\* The query, the two checks, payment.status = "cancelled", db.commit()
CancelPayment(p) ==
    /\ pc[p] = "cancel"
    /\ IF frame[p].payment \notin DOMAIN payments
       THEN /\ Fail(p, "Payment not found")
            /\ UNCHANGED <<accounts, transactions, ledger, session, locks,
                           payments>>
       ELSE IF payments[frame[p].payment].status # "pending"
       THEN /\ Fail(p, "Cannot cancel payment")
            /\ UNCHANGED <<accounts, transactions, ledger, session, locks,
                           payments>>
       ELSE /\ payments' = [payments EXCEPT
                               ![frame[p].payment].status = "cancelled",
                               ![frame[p].payment].failure_reason = "Cancelled"]
            /\ Commit(p)
            /\ pc' = [pc EXCEPT ![p] = "done"]
            /\ result' = [result EXCEPT ![p] = "ok"]
    /\ UNCHANGED <<nextId, call, frame, pre, bill_payments, billers>>
    /\ UNCHANGED loanvars
    /\ UNCHANGED invvars

----------------------------------------------------------------------------
(* PaymentProcessor.pay_bill *)

Call_pay_bill(p) ==
    \E a \in AccountIds, b \in BillerNames, amt \in BillAmounts :
        /\ Begin(p, [op |-> "pay_bill", account_id |-> a, biller_name |-> b,
                     amount |-> amt], 1)
        /\ pc' = [pc EXCEPT ![p] = "pb_biller"]
        /\ UNCHANGED <<accounts, transactions, ledger, nextId, session, locks,
                       frame>>
        /\ UNCHANGED payvars
        /\ UNCHANGED loanvars
        /\ UNCHANGED invvars

\* "Find or create biller" (db.add, db.commit for a new one) and the call
\* of process_transaction, which passes the keyword arguments category and
\* reference: process_transaction has no such parameters, so the call raises
\* TypeError before the engine runs, and neither the Transaction nor the
\* BillPayment of "Record bill payment" is ever created.
PB_Biller(p) ==
    /\ pc[p] = "pb_biller"
    /\ billers' = billers \cup {call[p].biller_name}
    /\ pc' = [pc EXCEPT ![p] = "done"]
    /\ result' = [result EXCEPT ![p] = "unexpected keyword argument"]
    /\ UNCHANGED <<accounts, transactions, ledger, nextId, session, locks,
                   call, frame, pre, payments, bill_payments>>
    /\ UNCHANGED loanvars
    /\ UNCHANGED invvars

----------------------------------------------------------------------------
(* Specifications *)

ProcessTransactionSteps(p) ==
    \/ PT_Lock(p)
    \/ PT_Validate(p)
    \/ PT_Insert(p)
    \/ PT_Balance(p)
    \/ PT_Ledger(p)
    \/ PT_Commit(p)
    \/ Raise(p)
    \/ Return(p)

\* One caller at a time: every operation of the engine and of the agent.
Next ==
    \/ Call_process_transaction("p1")
    \/ Call_transfer_funds("p1")
    \/ Call_reverse_transaction("p1")
    \/ Call_agent_transfer("p1")
    \/ ProcessTransactionSteps("p1")
    \/ TF_Credit("p1")
    \/ TF_Exit("p1")
    \/ RT_Lookup("p1")
    \/ RT_Mark("p1")
    \/ RT_Exit("p1")
    \/ AT_Read("p1")
    \/ AT_Flush("p1")
    \/ AT_Commit("p1")

Spec == Init /\ [][Next]_vars

\* One caller posting and transferring through the engine, a new operation
\* starting only while fewer than MaxPosts rows are committed.
NextPost ==
    \/ /\ Cardinality(transactions) < MaxPosts
       /\ \/ Call_process_transaction("p1")
          \/ Call_transfer_funds("p1")
    \/ ProcessTransactionSteps("p1")
    \/ TF_Credit("p1")
    \/ TF_Exit("p1")

SpecPost == Init /\ [][NextPost]_vars

\* One caller posting through the engine and reversing what was posted.
NextRev ==
    \/ /\ Cardinality(transactions) < MaxPosts
       /\ Call_process_transaction("p1")
    \/ Call_reverse_transaction("p1")
    \/ ProcessTransactionSteps("p1")
    \/ RT_Lookup("p1")
    \/ RT_Mark("p1")
    \/ RT_Exit("p1")

SpecRev == Init /\ [][NextRev]_vars

\* Concurrent requests, each with a session of its own, debiting and
\* transferring through the engine.
NextConc ==
    \E p \in Procs :
        \/ /\ Cardinality(transactions) < MaxPosts
           /\ \/ /\ Call_process_transaction(p)
                 /\ DebitClass(call'[p].transaction_type)
              \/ Call_transfer_funds(p)
        \/ ProcessTransactionSteps(p)
        \/ TF_Credit(p)
        \/ TF_Exit(p)

SpecConc == Init /\ [][NextConc]_vars

\* The accounts hold nothing or just enough for the dearest payment of ten
\* dollars, a wire transfer with its fee.
InitPay ==
    /\ accounts \in [OpenAccounts -> {AccountRow(b) : b \in {0, 3500}}]
    /\ transactions = {}
    /\ ledger = {}
    /\ nextId = 1
    /\ session = [p \in Procs |-> NoSession]
    /\ locks = [p \in Procs |-> NoLocks]
    /\ pc = [p \in Procs |-> "idle"]
    /\ call = [p \in Procs |-> NoCall]
    /\ frame = [p \in Procs |-> NoFrame]
    /\ result = [p \in Procs |-> "none"]
    /\ pre = [p \in Procs |-> NoPre]
    /\ payments = <<>>
    /\ bill_payments = <<>>
    /\ billers = {}
    /\ loans = <<>>
    /\ loan_payments = {}
    /\ nextPaymentId = 1
    /\ investments = <<>>
    /\ trades = <<>>

\* The steps of the payment processor's operations, after their call.
PaymentSteps(p) ==
    \/ IP_Validate(p)
    \/ IP_Persist(p)
    \/ EP_Lookup(p)
    \/ EP_Dispatch(p)
    \/ EP_Debit(p)
    \/ EP_Complete(p)
    \/ EP_Failed(p)
    \/ CancelPayment(p)

\* A request that meets the requirements of its payment method.
WellFormed(c) ==
    /\ c.swift_code = ""
    /\ ValidatePaymentRequirements(c.payment_method, c.beneficiary_account,
                                   c.routing_number, c.swift_code) = ""

\* One caller making payments from account a1 by every method, of ten
\* dollars and of ten dollars with the sign reversed, for today or for a
\* later date, executing and cancelling them.
NextPay ==
    \/ /\ Call_initiate_payment("p1")
       /\ call'["p1"].account_id = "a1"
       /\ call'["p1"].amount # 0
       /\ call'["p1"].scheduled_date # ""
       /\ WellFormed(call'["p1"])
    \/ Call_execute_payment("p1")
    \/ Call_cancel_payment("p1")
    \/ PaymentSteps("p1")
    \/ ProcessTransactionSteps("p1")

SpecPay == InitPay /\ [][NextPay]_vars

\* One caller making payments of ten dollars from account a1 by every
\* method, with and without a date, executing and cancelling them.
NextSchedule ==
    \/ /\ Call_initiate_payment("p1")
       /\ call'["p1"].account_id = "a1"
       /\ call'["p1"].amount = 1000
       /\ WellFormed(call'["p1"])
    \/ Call_execute_payment("p1")
    \/ Call_cancel_payment("p1")
    \/ PaymentSteps("p1")
    \/ ProcessTransactionSteps("p1")

SpecSchedule == InitPay /\ [][NextSchedule]_vars

\* One caller asking for payments at a later date, from every account and
\* with every kind of request, and closing accounts.
NextInitiate ==
    \/ /\ Call_initiate_payment("p1")
       /\ call'["p1"].scheduled_date = "later"
    \/ Call_close_account("p1")
    \/ CloseAccount("p1")
    \/ IP_Validate("p1")
    \/ IP_Persist("p1")
    \/ Raise("p1")
    \/ Return("p1")

SpecInitiate == InitPay /\ [][NextInitiate]_vars

\* One caller creating accounts with and without an initial deposit,
\* closing accounts, and posting deposits, withdrawals and debits of amounts
\* above zero, a new account or posting starting only while fewer than
\* MaxPosts rows are committed.
NextAcct ==
    \/ /\ Cardinality(transactions) < MaxPosts
       /\ \/ Call_create_account("p1")
          \/ /\ Call_process_transaction("p1")
             /\ call'["p1"].transaction_type
                  \in {"deposit", "withdrawal", "debit"}
             /\ call'["p1"].amount > 0
    \/ Call_close_account("p1")
    \/ CA_Add("p1")
    \/ CA_Commit("p1")
    \/ CloseAccount("p1")
    \/ ProcessTransactionSteps("p1")

SpecAcct == Init /\ [][NextAcct]_vars

\* One caller paying bills.
NextBill ==
    \/ Call_pay_bill("p1")
    \/ PB_Biller("p1")
    \/ Return("p1")

SpecBill == InitPay /\ [][NextBill]_vars

\* process_transaction called with the type debit and an amount of ten or
\* of forty dollars.
Call_process_debit(p) ==
    \E a \in AccountIds, amt \in {x \in BillAmounts : x > 0} :
        /\ Begin(p, [op |-> "process_transaction", account_id |-> a,
                     transaction_type |-> "debit", amount |-> amt], 1)
        /\ Enter(p, a, "debit", amt, "single")
        /\ pc' = [pc EXCEPT ![p] = "pt_lock"]
        /\ UNCHANGED <<accounts, transactions, ledger, nextId, session, locks>>
        /\ UNCHANGED payvars
        /\ UNCHANGED loanvars
        /\ UNCHANGED invvars

\* One caller posting debits and making, executing and cancelling internal
\* payments.
NextOverdraw ==
    \/ /\ Call_initiate_payment("p1")
       /\ call'["p1"].payment_method = "internal"
       /\ call'["p1"].amount > 0
    \/ Call_process_debit("p1")
    \/ Call_execute_payment("p1")
    \/ Call_cancel_payment("p1")
    \/ PaymentSteps("p1")
    \/ ProcessTransactionSteps("p1")

SpecOverdraw == InitPay /\ [][NextOverdraw]_vars

----------------------------------------------------------------------------
(* The engine's operations run alone, as functions on the account rows *)

\* process_transaction(account_id, transaction_type, amount) on rows acc.
SerialPost(acc, a, t, amt) ==
    IF a \notin DOMAIN acc THEN [ok |-> FALSE, accounts |-> acc]
    ELSE IF FundsChecked(t) /\ acc[a].available_balance < amt
    THEN [ok |-> FALSE, accounts |-> acc]
    ELSE IF ~CreditClass(t) /\ ~DebitClass(t)
    THEN [ok |-> FALSE, accounts |-> acc]
    ELSE [ok |-> TRUE,
          accounts |-> [acc EXCEPT
              ![a].balance = NewBalance(t, acc[a].balance, amt),
              ![a].available_balance = NewBalance(t, acc[a].balance, amt)]]

\* transfer_funds: the debit leg, committed on its own, then the credit leg.
SerialTransfer(acc, from, to, amt) ==
    LET debit == SerialPost(acc, from, "transfer", amt) IN
    IF ~debit.ok THEN debit
    ELSE SerialPost(debit.accounts, to, "deposit", amt)

SerialCall(acc, c) ==
    IF c.op = "process_transaction"
    THEN SerialPost(acc, c.account_id, c.transaction_type, c.amount)
    ELSE SerialTransfer(acc, c.from_account_id, c.to_account_id, c.amount)

----------------------------------------------------------------------------
(* Vocabulary of the properties *)

Finished(p, op) == pc[p] = "done" /\ call[p].op = op

Exists(tables, a) == a \in DOMAIN tables.accounts

RECURSIVE Sum(_, _)
Sum(entries, side) ==
    IF entries = {} THEN 0
    ELSE LET e == CHOOSE x \in entries : TRUE IN
         (IF side = "debit" THEN e.debit_amount ELSE e.credit_amount)
             + Sum(entries \ {e}, side)

EntriesOf(id) == {e \in ledger : e.transaction_id = id}

----------------------------------------------------------------------------
(* C1: transfer_funds is all-or-nothing.  When the debit leg of a transfer
   (of a positive amount) succeeded and the credit leg failed, then once the
   call has ended with its error the source account row, the Transaction
   rows and the ledger entries are what they were before the call. *)
C1_TransferAllOrNothing ==
    \A p \in Procs :
        (/\ Finished(p, "transfer_funds")
         /\ call[p].amount > 0
         /\ result[p] # "ok"
         /\ frame[p].leg = "credit")
        => /\ accounts[call[p].from_account_id]
                = pre[p].accounts[call[p].from_account_id]
           /\ transactions = pre[p].transactions
           /\ ledger = pre[p].ledger

\* The case of C1: a transfer to an account that does not exist has ended
\* with the error of its credit leg.
C1_Witness ==
    /\ Finished("p1", "transfer_funds")
    /\ call["p1"].amount > 0
    /\ frame["p1"].leg = "credit"
    /\ result["p1"] = "Account not found"

(* C2: a transfer_funds(A, B, amount) that succeeds lowers balance(A) by
   amount and raises balance(B) by amount, so that balance(A) + balance(B)
   is what it was before the call; both are unchanged when A = B. *)
C2_TransferConservation ==
    \A p \in Procs :
        (Finished(p, "transfer_funds") /\ result[p] = "ok")
        => LET A == call[p].from_account_id
               B == call[p].to_account_id
               before == pre[p].accounts
           IN
           /\ accounts[A].balance + accounts[B].balance
                = before[A].balance + before[B].balance
           /\ IF A = B
              THEN accounts[A].balance = before[A].balance
              ELSE /\ accounts[A].balance = before[A].balance - call[p].amount
                   /\ accounts[B].balance = before[B].balance + call[p].amount

\* The case of C2: a transfer of a positive amount between two different
\* accounts has succeeded.
C2_Witness ==
    /\ Finished("p1", "transfer_funds")
    /\ result["p1"] = "ok"
    /\ call["p1"].from_account_id # call["p1"].to_account_id
    /\ call["p1"].amount > 0

(* C3: a process_transaction call (any type, accepted or rejected; here
   already for the amounts above zero) that starts with no available balance
   below zero ends with no available balance below zero, so that no sequence
   of such calls takes an available balance below zero. *)
C3_NoNegativeAvailable ==
    \A p \in Procs :
        (/\ Finished(p, "process_transaction")
         /\ call[p].amount > 0
         /\ \A a \in DOMAIN pre[p].accounts :
                pre[p].accounts[a].available_balance >= 0)
        => \A a \in DOMAIN accounts : accounts[a].available_balance >= 0

(* C4: process_transaction of a debit-class type (withdrawal, transfer,
   payment, debit) with an amount above the available balance fails with
   the insufficient-funds error and changes nothing; so does transfer_funds
   from an account that cannot cover the amount. *)
C4_InsufficientFundsRejected ==
    \A p \in Procs :
        /\ (/\ Finished(p, "process_transaction")
            /\ call[p].transaction_type
                 \in {"withdrawal", "transfer", "payment", "debit"}
            /\ Exists(pre[p], call[p].account_id)
            /\ call[p].amount
                 > pre[p].accounts[call[p].account_id].available_balance)
           => (result[p] = "Insufficient funds" /\ Committed = pre[p])
        /\ (/\ Finished(p, "transfer_funds")
            /\ Exists(pre[p], call[p].from_account_id)
            /\ call[p].amount
                 > pre[p].accounts[call[p].from_account_id].available_balance)
           => (result[p] = "Insufficient funds" /\ Committed = pre[p])

(* C6: in every reachable state, for every completed Transaction (here
   already for those of an amount above zero) the debit amounts of its
   general-ledger entries add up to the same as their credit amounts. *)
C6_DoubleEntryBalanced ==
    \A t \in transactions :
        (t.status = "completed" /\ t.amount > 0)
        => Sum(EntriesOf(t.id), "debit") = Sum(EntriesOf(t.id), "credit")

(* C8: process_transaction rejects every amount <= 0, whatever the type,
   and the rejected call changes no balance and writes no row. *)
C8_NonPositiveAmountRejected ==
    \A p \in Procs :
        (Finished(p, "process_transaction") /\ call[p].amount <= 0)
        => (result[p] # "ok" /\ Committed = pre[p])

(* C10: reverse_transaction(t) of a completed transaction t (of an amount
   above zero) that is the latest posting on its account succeeds, the
   account's balance is then what it was immediately before t was posted,
   and t is reversed. *)
C10_ReversalRoundTrip ==
    \A p \in Procs : \A t \in pre[p].transactions :
        (/\ Finished(p, "reverse_transaction")
         /\ t.id = call[p].transaction_id
         /\ t.amount > 0
         /\ t.status = "completed"
         /\ \A u \in pre[p].transactions :
                u.account_id = t.account_id => u.id <= t.id
         /\ pre[p].accounts[t.account_id].balance = t.balance_after)
        => /\ result[p] = "ok"
           /\ accounts[t.account_id].balance
                = IF t.transaction_type \in {"deposit", "credit", "refund"}
                  THEN t.balance_after - t.amount
                  ELSE t.balance_after + t.amount
           /\ [t EXCEPT !.status = "reversed"] \in transactions

(* C5: every process_transaction call is one atomic unit.  Its steps before
   the commit change no committed row; its commit adds exactly one
   Transaction row, completed and with balance_after = new_balance, sets the
   account's balance and available_balance to new_balance (the balance at
   entry plus the amount for deposit, credit, refund; minus the amount for
   withdrawal, debit, payment, transfer) and adds ledger entries of that
   transaction and of no other; a failing call leaves the committed rows as
   they were at its entry. *)
C5_AtomicUnit ==
    [][\A p \in Procs :
        pc'[p] # pc[p] =>
          /\ pc[p] \in {"pt_lock", "pt_validate", "pt_insert", "pt_balance",
                        "pt_ledger"}
             => Committed' = Committed
          /\ (pc[p] = "raise" /\ frame[p].leg # "none")
             => (Committed' = frame[p].entry /\ session'[p] = NoSession)
          /\ pc[p] = "pt_commit"
             => LET f == frame[p]
                    a == f.account_id
                    old == f.entry.accounts[a].balance
                    new_balance ==
                        IF f.transaction_type \in {"deposit", "credit", "refund"}
                        THEN old + f.amount
                        ELSE old - f.amount
                    rows == transactions' \ transactions
                    lines == ledger' \ ledger
                IN
                /\ transactions \subseteq transactions'
                /\ ledger \subseteq ledger'
                /\ Cardinality(rows) = 1
                /\ lines # {}
                /\ \A t \in rows :
                       /\ t.account_id = a
                       /\ t.transaction_type = f.transaction_type
                       /\ t.amount = f.amount
                       /\ t.status = "completed"
                       /\ t.balance_after = new_balance
                       /\ \A e \in lines : e.transaction_id = t.id
                       /\ \A e \in ledger : e.transaction_id # t.id
                /\ DOMAIN accounts' = DOMAIN accounts
                /\ accounts'[a].balance = new_balance
                /\ accounts'[a].available_balance = new_balance
                /\ \A b \in DOMAIN accounts \ {a} : accounts'[b] = accounts[b]
      ]_vars

\* The case of C5: a process_transaction call has committed its unit.
C5_Witness ==
    /\ Finished("p1", "process_transaction")
    /\ result["p1"] = "ok"
    /\ call["p1"].amount > 0
    /\ transactions # pre["p1"].transactions
    /\ ledger # pre["p1"].ledger

(* C9: every change of an account's balance is made by process_transaction:
   it is committed by a process_transaction on that account holding the
   row lock taken by its locking read, together with a Transaction row
   showing the new balance and ledger entries of that row.  (Stated for the
   chat agent's transfers of amounts above zero.) *)
C9_BalanceOnlyByEngine ==
    [][\A a \in DOMAIN accounts :
        (/\ a \in DOMAIN accounts'
         /\ accounts'[a].balance # accounts[a].balance
         /\ \A q \in Procs :
                call[q].op = "agent_transfer" => call[q].amount > 0)
        => \E p \in Procs :
             /\ pc[p] = "pt_commit"
             /\ frame[p].account_id = a
             /\ locks[p][a] = "for_update"
             /\ \E t \in transactions' \ transactions :
                   /\ t.account_id = a
                   /\ t.balance_after = accounts'[a].balance
                   /\ \E e \in ledger' \ ledger : e.transaction_id = t.id
      ]_vars

\* The case of C9: the chat agent's transfer between two accounts has ended
\* successfully.
C9_Witness ==
    /\ Finished("p1", "agent_transfer")
    /\ call["p1"].amount > 0
    /\ result["p1"] = "ok"
    /\ call["p1"].from_account # call["p1"].to_account

\* Call c debits account a.
Debits(c, a) ==
    \/ /\ c.op = "process_transaction"
       /\ c.account_id = a
       /\ DebitClass(c.transaction_type)
    \/ c.op = "transfer_funds" /\ c.from_account_id = a

\* The debit of p's finished call went through.
Debited(p) ==
    \/ result[p] = "ok"
    \/ call[p].op = "transfer_funds" /\ frame[p].leg = "credit"

\* Both callers have finished calls that began on the same committed rows.
RanConcurrently ==
    /\ pc["p1"] = "done"
    /\ pc["p2"] = "done"
    /\ pre["p1"] = pre["p2"]

\* The rows and the two results are those of running x's call, then y's.
SerialOutcome(x, y) ==
    LET first == SerialCall(pre[x].accounts, call[x])
        second == SerialCall(first.accounts, call[y])
    IN /\ accounts = second.accounts
       /\ (result[x] = "ok") = first.ok
       /\ (result[y] = "ok") = second.ok

\* Two concurrent calls debiting one account end as some serial order of
\* the two would.
ConcurrentDebitsInSomeSerialOrder ==
    \A a \in AccountIds :
        (/\ RanConcurrently
         /\ Debits(call["p1"], a)
         /\ Debits(call["p2"], a))
        => (SerialOutcome("p1", "p2") \/ SerialOutcome("p2", "p1"))

(* C7: two concurrent process_transaction or transfer_funds calls that
   debit the same account end as some serial order of the two would, so
   that no balance update is lost, and two debits (of amounts above zero)
   whose sum exceeds the available balance never both succeed. *)
C7_ConcurrentDebitsSerialize ==
    \A a \in AccountIds :
        (/\ RanConcurrently
         /\ Debits(call["p1"], a)
         /\ Debits(call["p2"], a))
        => /\ SerialOutcome("p1", "p2") \/ SerialOutcome("p2", "p1")
           /\ (/\ Debited("p1")
               /\ Debited("p2")
               /\ call["p1"].amount > 0
               /\ call["p2"].amount > 0)
              => call["p1"].amount + call["p2"].amount
                   <= pre["p1"].accounts[a].available_balance

\* The case of C7: two concurrent debits of one account, each covered by the
\* available balance but not both, have ended.
C7_Witness ==
    \E a \in AccountIds :
        /\ RanConcurrently
        /\ Debits(call["p1"], a)
        /\ Debits(call["p2"], a)
        /\ Exists(pre["p1"], a)
        /\ call["p1"].amount > 0
        /\ call["p2"].amount > 0
        /\ call["p1"].amount <= pre["p1"].accounts[a].available_balance
        /\ call["p2"].amount <= pre["p1"].accounts[a].available_balance
        /\ call["p1"].amount + call["p2"].amount
             > pre["p1"].accounts[a].available_balance

----------------------------------------------------------------------------
\* The type the reversal of an original of the given type is posted with.
InverseType(transaction_type) ==
    CASE transaction_type = "deposit" -> "withdrawal"
      [] transaction_type = "withdrawal" -> "deposit"
      [] transaction_type = "credit" -> "debit"
      [] transaction_type = "debit" -> "credit"
      [] OTHER -> "reversal"

(* C11: reverse_transaction of a completed transaction (of an amount above
   zero, and which the account can cover where the inverse is a withdrawal)
   succeeds for every original type: a new transaction of the inverse type
   (deposit <-> withdrawal, credit <-> debit, the generic type reversal for
   transfer, payment and refund) is posted for the same amount on the same
   account, and the original is marked reversed. *)
C11_ReversalByType ==
    \A p \in Procs : \A t \in pre[p].transactions :
        (/\ Finished(p, "reverse_transaction")
         /\ t.id = call[p].transaction_id
         /\ t.status = "completed"
         /\ t.amount > 0
         /\ InverseType(t.transaction_type) = "withdrawal"
            => pre[p].accounts[t.account_id].available_balance >= t.amount)
        => /\ result[p] = "ok"
           /\ \E r \in transactions \ pre[p].transactions :
                 /\ r.transaction_type = InverseType(t.transaction_type)
                 /\ r.amount = t.amount
                 /\ r.account_id = t.account_id
           /\ [t EXCEPT !.status = "reversed"] \in transactions

\* The case of C11: the reversal of a completed payment, transfer or refund
\* has ended.
C11_Witness ==
    \E t \in pre["p1"].transactions :
        /\ Finished("p1", "reverse_transaction")
        /\ t.id = call["p1"].transaction_id
        /\ t.status = "completed"
        /\ t.amount > 0
        /\ t.transaction_type \in {"transfer", "payment", "refund"}

(* C12: reverse_transaction fails with the not-found error for an unknown
   transaction id and with the invalid-state error for a transaction that is
   not completed, so a second reversal of one original fails; a failing call
   leaves all account rows, Transaction rows and ledger entries as they
   were; a succeeding call found its original completed, marks it reversed
   and posts exactly one row, and a reversed row stays as it is, so that an
   original is offset at most once. *)
C12_FailedReversalChangesNothing ==
    \A p \in Procs :
        /\ Finished(p, "reverse_transaction")
           => LET known == {t \in pre[p].transactions :
                               t.id = call[p].transaction_id}
              IN
              /\ known = {} => result[p] = "Transaction not found"
              /\ \A t \in known :
                    t.status # "completed"
                    => result[p] = "Can only reverse completed transactions"
              /\ result[p] # "ok" => Committed = pre[p]
              /\ result[p] = "ok"
                 => /\ \E t \in known :
                          /\ t.status = "completed"
                          /\ [t EXCEPT !.status = "reversed"] \in transactions
                    /\ Cardinality(transactions)
                         = Cardinality(pre[p].transactions) + 1
        /\ pc[p] = "done"
           => \A t \in pre[p].transactions :
                 t.status = "reversed" => t \in transactions

\* The case of C12: a second reverse_transaction on an original that was
\* reversed before has ended with the invalid-state error.
C12_Witness ==
    /\ Finished("p1", "reverse_transaction")
    /\ result["p1"] = "Can only reverse completed transactions"
    /\ \E t \in pre["p1"].transactions :
          t.id = call["p1"].transaction_id /\ t.status = "reversed"

----------------------------------------------------------------------------
\* The payment-type debits of account a posted since p's operation began.
NewDebits(p, a) ==
    {t \in transactions \ pre[p].transactions :
        t.transaction_type = "payment" /\ t.account_id = a}

(* C13: an execute_payment on an instruction that was executed before
   (it is completed or failed, or was cancelled) fails with the invalid-state
   error and leaves the instruction, the accounts and every other row as
   they were; and one execute_payment posts at most one debit, so that the
   source account is debited amount + fee at most once in total. *)
C13_SecondExecutionRejected ==
    \A p \in Procs :
        Finished(p, "execute_payment")
        => LET id == call[p].payment_id IN
           /\ (id \in DOMAIN pre[p].payments
               /\ pre[p].payments[id].status # "pending")
              => /\ result[p] = "Payment not in pending status"
                 /\ Committed = pre[p]
           /\ id \in DOMAIN pre[p].payments
              => Cardinality(NewDebits(p, pre[p].payments[id].account_id)) <= 1

\* The case of C13: a second execute_payment on a completed instruction
\* has ended.
C13_Witness ==
    /\ Finished("p1", "execute_payment")
    /\ call["p1"].payment_id \in DOMAIN pre["p1"].payments
    /\ pre["p1"].payments[call["p1"].payment_id].status = "completed"
    /\ pre["p1"].payments[call["p1"].payment_id].amount > 0

\* The step with which p's operation op ends.
Ends(p, op) == pc[p] # "done" /\ pc'[p] = "done" /\ call[p].op = op

(* C14: the status of a PaymentInstruction changes only from pending, and
   only to completed, failed or cancelled, whatever execute_payment and
   cancel_payment calls are made; a cancel_payment on an instruction that is
   not pending ends with the invalid-state error and changes no row; and
   Transaction rows are posted for an instruction only while it is pending,
   so a cancelled instruction never causes a debit of its account. *)
C14_StatusMovesOnlyFromPending ==
    [][/\ \A id \in DOMAIN payments :
             /\ id \in DOMAIN payments'
             /\ payments'[id].status # payments[id].status
                => /\ payments[id].status = "pending"
                   /\ payments'[id].status
                        \in {"completed", "failed", "cancelled"}
       /\ \A p \in Procs :
             /\ (/\ Ends(p, "cancel_payment")
                 /\ call[p].payment_id \in DOMAIN pre[p].payments
                 /\ pre[p].payments[call[p].payment_id].status # "pending")
                => /\ result'[p] = "Cannot cancel payment"
                   /\ Committed' = pre[p]
             /\ (/\ call[p].op \in {"execute_payment", "cancel_payment"}
                 /\ transactions' # transactions)
                => /\ call[p].payment_id \in DOMAIN payments
                   /\ payments[call[p].payment_id].status = "pending"
      ]_vars

\* The case of C14: an execute_payment on a cancelled instruction has ended.
C14_Witness ==
    /\ Finished("p1", "execute_payment")
    /\ call["p1"].payment_id \in DOMAIN pre["p1"].payments
    /\ pre["p1"].payments[call["p1"].payment_id].status = "cancelled"

\* The fee of a payment as the fee table states it: flat for ACH, wire and
\* RTP, 2.9 percent of the amount for card, nothing for internal.
TableFee(payment_method, amount) ==
    CASE payment_method = "ach" -> 25
      [] payment_method = "wire" -> 2500
      [] payment_method = "rtp" -> 50
      [] payment_method = "card" -> (29 * amount) \div 1000
      [] OTHER -> 0

(* C15: an instruction is completed if and only if exactly one payment-type
   debit of amount + fee(method) was posted on its source account for it.
   The step that commits the debit lowers the source balance by exactly
   amount + fee (flat for ACH, wire and RTP, a percentage of the amount for
   card, zero for internal) and adds that one row while the instruction is
   still pending; the status becomes completed only with the debit posted;
   and when the call ends the instruction is completed exactly if the call
   posted one such debit. *)
C15_CompletedIffDebited ==
    [][\A p \in Procs :
        LET id == frame[p].payment
            row == payments[id]
            total == row.amount + TableFee(row.payment_method, row.amount)
            debit == [id |-> nextId - 1, account_id |-> row.account_id,
                      transaction_type |-> "payment", amount |-> total,
                      balance_after |-> accounts'[row.account_id].balance,
                      status |-> "completed"]
        IN
        /\ (pc[p] = "pt_commit" /\ frame[p].leg = "payment")
           => /\ row.status = "pending"
              /\ payments' = payments
              /\ accounts'[row.account_id].balance
                   = accounts[row.account_id].balance - total
              /\ transactions' = transactions \cup {debit}
              /\ debit \notin transactions
        /\ (/\ id \in DOMAIN payments
            /\ payments'[id].status = "completed"
            /\ row.status # "completed")
           => /\ NewDebits(p, row.account_id) # {}
              /\ \A t \in NewDebits(p, row.account_id) : t.amount = total
        /\ (Ends(p, "execute_payment") \/ Ends(p, "initiate_payment"))
           => LET i == frame'[p].payment IN
              (/\ i \in DOMAIN payments'
               /\ (i \notin DOMAIN pre[p].payments
                   \/ pre[p].payments[i].status = "pending"))
              => (payments'[i].status = "completed"
                  <=> Cardinality({t \in transactions' \ pre[p].transactions :
                          /\ t.transaction_type = "payment"
                          /\ t.account_id = payments'[i].account_id
                          /\ t.amount = payments'[i].amount
                              + TableFee(payments'[i].payment_method,
                                         payments'[i].amount)}) = 1)
      ]_vars

\* The case of C15: a card payment of an amount above zero has been
\* executed.
C15_Witness ==
    /\ pc["p1"] = "done"
    /\ frame["p1"].payment \in DOMAIN payments
    /\ payments[frame["p1"].payment].status = "completed"
    /\ payments[frame["p1"].payment].payment_method = "card"
    /\ payments[frame["p1"].payment].amount > 0
    /\ NewDebits("p1", payments[frame["p1"].payment].account_id) # {}

\* p's execute_payment or initiate_payment has ended with an error raised
\* while instruction id was being executed.
FailedInExecution(p, id) ==
    /\ pc[p] = "done"
    /\ call[p].op \in {"execute_payment", "initiate_payment"}
    /\ result[p] # "ok"
    /\ id = frame[p].payment
    /\ id \in DOMAIN payments
    /\ (id \notin DOMAIN pre[p].payments
        \/ pre[p].payments[id].status = "pending")

(* C16: when execute_payment fails during execution (called directly or
   through initiate_payment; the account no longer covers amount + fee, or
   the method is unsupported), the instruction ends in status failed with
   the error recorded, the caller gets the error, and the balance of the
   source account is what it was before the call. *)
C16_FailedExecutionKeepsBalance ==
    \A p \in Procs : \A id \in DOMAIN payments :
        FailedInExecution(p, id)
        => /\ payments[id].status = "failed"
           /\ payments[id].failure_reason = result[p]
           /\ result[p] \in {"Insufficient funds", "Unsupported payment method"}
           /\ accounts[payments[id].account_id].balance
                = pre[p].accounts[payments[id].account_id].balance

\* The case of C16: the execution of a payment of an amount above zero has
\* failed because the account did not cover it.
C16_Witness ==
    \E id \in DOMAIN payments :
        /\ FailedInExecution("p1", id)
        /\ payments[id].amount > 0
        /\ result["p1"] = "Insufficient funds"

----------------------------------------------------------------------------
\* What makes initiate_payment reject call c on the tables as p's operation
\* found them: the source account is missing or not active, it does not
\* cover amount + fee, or the request lacks what its method requires.
MustReject(tables, c) ==
    \/ ~Exists(tables, c.account_id)
    \/ tables.accounts[c.account_id].status # "active"
    \/ tables.accounts[c.account_id].available_balance
         < c.amount + TableFee(c.payment_method, c.amount)
    \/ /\ c.payment_method = "ach"
       /\ (c.beneficiary_account = "" \/ c.routing_number = "")
    \/ /\ c.payment_method = "wire"
       /\ c.beneficiary_account = ""
    \/ /\ c.payment_method = "wire"
       /\ c.swift_code # ""
       /\ Len(c.swift_code) # 8
       /\ Len(c.swift_code) # 11

(* C17: initiate_payment ends with an error, and with every table as it
   was before the call (no PaymentInstruction added, no balance changed),
   when the source account is missing or not active, when its available
   balance is below amount + fee(method), for an ACH payment without
   beneficiary account or routing number, for a wire without beneficiary
   account, and for a wire with a SWIFT code that is not 8 or 11 characters
   long. *)
C17_InvalidPaymentNotPersisted ==
    \A p \in Procs :
        (Finished(p, "initiate_payment") /\ MustReject(pre[p], call[p]))
        => /\ result[p] \in {"Account not found", "Account is not active",
                             "Insufficient funds",
                             "ACH payments require beneficiary account and routing number",
                             "Wire transfers require beneficiary account",
                             "Invalid SWIFT code format"}
           /\ Committed = pre[p]
           /\ Len(payments) = Len(pre[p].payments)

\* The case of C17: a wire of ten dollars from an account that covers it
\* has been rejected for its SWIFT code of nine characters.
C17_Witness ==
    /\ Finished("p1", "initiate_payment")
    /\ call["p1"].payment_method = "wire"
    /\ Len(call["p1"].swift_code) = 9
    /\ call["p1"].amount > 0
    /\ result["p1"] = "Invalid SWIFT code format"
    /\ payments = pre["p1"].payments

----------------------------------------------------------------------------
(* C18: an initiate_payment that passes the validation, by one of the
   payment methods, with the date of today or without a date, returns with
   a new instruction in status completed and one payment debit of
   amount + fee posted on the account; one with a later date returns with a
   new instruction in status pending and with the accounts and Transaction
   rows as they were before the call; and an instruction with a later date
   leaves the status pending only in a step of an execute_payment or a
   cancel_payment called on it. *)
C18_ImmediateOrScheduled ==
    [][/\ \A p \in Procs :
            (Ends(p, "initiate_payment") /\ ~MustReject(pre[p], call[p]))
            => LET c == call[p]
                   id == Len(pre[p].payments) + 1
                   total == c.amount + TableFee(c.payment_method, c.amount)
               IN
               /\ (/\ c.scheduled_date \in {"", "today"}
                   /\ c.payment_method \in PaymentMethods)
                  => /\ result'[p] = "ok"
                     /\ DOMAIN payments' = 1..id
                     /\ payments'[id].status = "completed"
                     /\ payments'[id].account_id = c.account_id
                     /\ Cardinality(
                           {t \in transactions' \ pre[p].transactions :
                               /\ t.transaction_type = "payment"
                               /\ t.account_id = c.account_id
                               /\ t.amount = total}) = 1
               /\ c.scheduled_date = "later"
                  => /\ result'[p] = "ok"
                     /\ DOMAIN payments' = 1..id
                     /\ payments'[id].status = "pending"
                     /\ payments'[id].account_id = c.account_id
                     /\ accounts' = pre[p].accounts
                     /\ transactions' = pre[p].transactions
       /\ \A id \in DOMAIN payments :
            (/\ payments[id].scheduled_date = "later"
             /\ payments[id].status = "pending"
             /\ payments'[id].status # "pending")
            => \E p \in Procs :
                  /\ call[p].op \in {"execute_payment", "cancel_payment"}
                  /\ call[p].payment_id = id
                  /\ pc[p] \notin {"idle", "done"}
      ]_vars

\* The case of C18: an initiate_payment of ten dollars without a date has
\* returned, its instruction completed.
C18_Witness ==
    /\ Finished("p1", "initiate_payment")
    /\ call["p1"].scheduled_date = ""
    /\ call["p1"].amount > 0
    /\ result["p1"] = "ok"
    /\ frame["p1"].payment \in DOMAIN payments
    /\ payments[frame["p1"].payment].status = "completed"
    /\ NewDebits("p1", call["p1"].account_id) # {}

----------------------------------------------------------------------------
(* C19: a pay_bill of an amount above zero on an existing account that
   covers the amount returns with one new Transaction of type debit for the
   amount on the account, the balance of the account lowered by the amount,
   and one new BillPayment in status completed for the account, the biller
   and the amount. *)
C19_BillPaidAndRecorded ==
    \A p \in Procs :
        LET c == call[p] IN
        (/\ Finished(p, "pay_bill")
         /\ c.amount > 0
         /\ Exists(pre[p], c.account_id)
         /\ pre[p].accounts[c.account_id].available_balance >= c.amount)
        => /\ result[p] = "ok"
           /\ Cardinality({t \in transactions \ pre[p].transactions :
                   /\ t.transaction_type = "debit"
                   /\ t.account_id = c.account_id
                   /\ t.amount = c.amount}) = 1
           /\ accounts[c.account_id].balance
                = pre[p].accounts[c.account_id].balance - c.amount
           /\ bill_payments =
                Append(pre[p].bill_payments,
                       [account_id |-> c.account_id, biller |-> c.biller_name,
                        amount |-> c.amount, status |-> "completed"])

\* The case of C19: a pay_bill of ten dollars on an account that holds
\* thirty-five has ended.
C19_Witness ==
    /\ Finished("p1", "pay_bill")
    /\ Exists(pre["p1"], call["p1"].account_id)
    /\ pre["p1"].accounts[call["p1"].account_id].available_balance = 3500
    /\ call["p1"].amount = 1000

----------------------------------------------------------------------------
\* The Transaction rows of account a.
TransactionsOf(a) == {t \in transactions : t.account_id = a}

(* C20: create_account returns a new account in status active; called with
   an initial deposit D above zero, the account's balance and available
   balance are D and its Transaction rows are exactly one completed deposit
   of amount D; called without an initial deposit, the balance and the
   available balance are 0 and the account has no Transaction row. *)
C20_AccountOpenedWithDeposit ==
    \A p \in Procs :
        Finished(p, "create_account")
        => LET a == frame[p].account_id
               d == call[p].initial_deposit
           IN
           /\ result[p] = "ok"
           /\ a \in DOMAIN accounts
           /\ a \notin DOMAIN pre[p].accounts
           /\ accounts[a].status = "active"
           /\ (d # <<>> /\ d[1] > 0)
              => /\ accounts[a].balance = d[1]
                 /\ accounts[a].available_balance = d[1]
                 /\ Cardinality(TransactionsOf(a)) = 1
                 /\ \A t \in TransactionsOf(a) :
                       /\ t.transaction_type = "deposit"
                       /\ t.amount = d[1]
                       /\ t.status = "completed"
                       /\ t \notin pre[p].transactions
           /\ d = <<>>
              => /\ accounts[a].balance = 0
                 /\ accounts[a].available_balance = 0
                 /\ TransactionsOf(a) = {}
           /\ \A x \in DOMAIN pre[p].accounts :
                 accounts[x] = pre[p].accounts[x]

\* The case of C20: a create_account with an initial deposit above zero has
\* returned.
C20_Witness ==
    /\ Finished("p1", "create_account")
    /\ call["p1"].initial_deposit # <<>>
    /\ call["p1"].initial_deposit[1] > 0
    /\ frame["p1"].account_id \in DOMAIN accounts
    /\ accounts[frame["p1"].account_id].balance = call["p1"].initial_deposit[1]

----------------------------------------------------------------------------
(* C21: a close_account on an account whose balance is not zero, above or
   below, ends with the invalid-state error and leaves every row, the
   account's status and balance included, as it was; on an account whose
   balance is zero it ends with the status closed and the balance still
   zero; and no step of any operation sets the status closed on an account
   whose balance is not zero. *)
C21_CloseOnlyAtZeroBalance ==
    [][\A p \in Procs :
        /\ (Ends(p, "close_account") /\ Exists(pre[p], call[p].account_id))
           => LET a == call[p].account_id IN
              IF pre[p].accounts[a].balance # 0
              THEN /\ result'[p] = "Cannot close account with non-zero balance"
                   /\ Committed' = pre[p]
              ELSE /\ result'[p] = "ok"
                   /\ accounts'[a] =
                        [pre[p].accounts[a] EXCEPT !.status = "closed"]
        /\ \A a \in DOMAIN accounts :
              (accounts'[a].status = "closed" /\ accounts[a].status # "closed")
              => accounts[a].balance = 0 /\ accounts'[a].balance = 0
      ]_vars

\* The case of C21: a close_account on an account overdrawn by a debit has
\* been refused.
C21_Witness ==
    /\ Finished("p1", "close_account")
    /\ Exists(pre["p1"], call["p1"].account_id)
    /\ pre["p1"].accounts[call["p1"].account_id].balance < 0
    /\ result["p1"] = "Cannot close account with non-zero balance"
    /\ accounts = pre["p1"].accounts

----------------------------------------------------------------------------
(* Arithmetic on numbers of any size.  The source computes amounts with
   Decimal and with floating-point numbers; the products that arise exceed
   the integers of the model checker, so a natural number is written as the
   sequence of its digits to the base 1000, lowest digit first, and zero is
   the empty sequence. *)

Digit(x, k) == IF k \in 1..Len(x) THEN x[k] ELSE 0

Strip(x) ==
    LET top == {k \in 1..Len(x) : x[k] # 0} IN
    IF top = {}
    THEN <<>>
    ELSE SubSeq(x, 1, CHOOSE k \in top : \A j \in top : j <= k)

\* the digits of an integer 0 <= n < 2^31
NatOf(n) ==
    Strip(<<n % 1000, (n \div 1000) % 1000, (n \div 1000000) % 1000,
            n \div 1000000000>>)

\* the integer written by x, for x < 2^31
IntOf(x) ==
    Digit(x, 1) + 1000 * Digit(x, 2) + 1000000 * Digit(x, 3)
        + 1000000000 * Digit(x, 4)

Longer(x, y) == IF Len(x) < Len(y) THEN Len(y) ELSE Len(x)

\* A carry enters place k when a lower place overflows and every place in
\* between passes it on.
NatAdd(x, y) ==
    LET n == Longer(x, y) + 1
        s == SubSeq([k \in 1..n |-> Digit(x, k) + Digit(y, k)], 1, n)
        carry(k) == \E j \in 1..(k - 1) :
                        /\ s[j] >= 1000
                        /\ \A i \in (j + 1)..(k - 1) : s[i] = 999
    IN IF x = <<>>
       THEN y
       ELSE IF y = <<>>
            THEN x
            ELSE Strip([k \in 1..n |->
                           (s[k] + IF carry(k) THEN 1 ELSE 0) % 1000])

\* x - y for x >= y
NatSub(x, y) ==
    LET n == Len(x)
        d == SubSeq([k \in 1..n |-> x[k] - Digit(y, k)], 1, n)
        borrow(k) == \E j \in 1..(k - 1) :
                         /\ d[j] < 0
                         /\ \A i \in (j + 1)..(k - 1) : d[i] = 0
    IN IF y = <<>>
       THEN x
       ELSE Strip([k \in 1..n |->
                      (d[k] - IF borrow(k) THEN 1 ELSE 0) % 1000])

\* x < y for x and y without leading zeros
NatLess(x, y) ==
    \/ Len(x) < Len(y)
    \/ /\ Len(x) = Len(y)
       /\ \E k \in 1..Len(x) :
              /\ x[k] < y[k]
              /\ \A i \in (k + 1)..Len(x) : x[i] = y[i]

\* the sum of the products x[i] * y[k + 1 - i], as the size of the bag that
\* holds each i that many times
Column(x, y, k) ==
    LET terms == {i \in 1..Len(x) : i <= k /\ x[i] * Digit(y, k + 1 - i) > 0}
    IN BagCardinality([i \in terms |-> x[i] * Digit(y, k + 1 - i)])

NatMul(x, y) ==
    LET n == Len(x) + Len(y)
        c == SubSeq([k \in 1..n |-> Column(x, y, k)], 1, n)
        ones == SubSeq([k \in 1..n |-> c[k] % 1000], 1, n)
        thousands ==
            SubSeq([k \in 1..n |->
                       IF k > 1 THEN (c[k - 1] \div 1000) % 1000 ELSE 0], 1, n)
        millions ==
            SubSeq([k \in 1..n |->
                       IF k > 2 THEN c[k - 2] \div 1000000 ELSE 0], 1, n)
    IN IF x = <<>> \/ y = <<>>
       THEN <<>>
       ELSE NatAdd(NatAdd(Strip(ones), Strip(thousands)), Strip(millions))

\* x^n from the power of half the exponent
PowStep(half, x, n) ==
    IF half = <<>>
    THEN <<>>
    ELSE IF n % 2 = 0
         THEN NatMul(half, half)
         ELSE NatMul(NatMul(half, half), x)

RECURSIVE NatPow(_, _)
NatPow(x, n) ==
    IF n = 0 THEN <<1>> ELSE PowStep(NatPow(x, n \div 2), x, n)

\* 10^e
TenTo(e) ==
    LET n == e \div 3 + 1 IN
    SubSeq([k \in 1..n |->
               IF k < n THEN 0
               ELSE IF e % 3 = 0 THEN 1 ELSE IF e % 3 = 1 THEN 10 ELSE 100],
           1, n)

\* The number written by the digits of x from place m upwards, when that is
\* below 10^9.
Top(x, m) ==
    Digit(x, m) + 1000 * Digit(x, m + 1) + 1000000 * Digit(x, m + 2)

\* The digit r / y rounded down, for r < 1000 * y and y # 0: the leading
\* digits of r and y bracket it within two candidates.
QuotDigit(r, y) ==
    LET m == Len(y)
        lead == Top(y, m - 1)
        low == Top(r, m - 1) \div (lead + 1)
        high == Top(r, m - 1) \div lead
        fits(c) == ~NatLess(r, NatMul(y, NatOf(c)))
    IN IF m = 1
       THEN IntOf(r) \div y[1]
       ELSE CHOOSE c \in low..high :
                fits(c) /\ (c = high \/ ~fits(c + 1))

\* One step of long division: up is the quotient and remainder of the
\* higher digits, digit the next digit down.
DivStep(up, digit, y) ==
    LET r == Strip(<<digit>> \o up.rem)
        d == QuotDigit(r, y)
    IN IF up.rem = <<>> /\ digit = 0
       THEN [quot |-> <<0>> \o up.quot, rem |-> <<>>]
       ELSE [quot |-> <<d>> \o up.quot,
             rem |-> NatSub(r, NatMul(y, NatOf(d)))]

\* Long division of the digits of x from place k upwards by y # 0.
RECURSIVE DivFrom(_, _, _)
DivFrom(x, y, k) ==
    IF k > Len(x) - Len(y) + 1
    THEN [quot |-> <<>>, rem |-> SubSeq(x, k, Len(x))]
    ELSE DivStep(DivFrom(x, y, k + 1), x[k], y)

\* The quotient of x by y # 0 rounded down.
NatDiv(x, y) == Strip(DivFrom(x, y, 1).quot)

\* 1000^j modulo y, for 0 < y < 1000
RECURSIVE PowMod(_, _)
PowMod(y, j) ==
    IF j = 0
    THEN 1 % y
    ELSE LET half == PowMod(y, j \div 2)
         IN (((half * half) % y) * (IF j % 2 = 0 THEN 1 ELSE 1000)) % y

\* The number written by the digits of x above place k, modulo y < 1000:
\* the remainder long division carries into place k.
Carried(x, k, y) ==
    LET part(i) == (x[i] % y) * PowMod(y, i - k - 1)
        terms == {i \in (k + 1)..Len(x) : part(i) > 0}
    IN BagCardinality([i \in terms |-> part(i)]) % y

\* Quotient and remainder of x by a number 0 < y < 1000 of one digit, each
\* digit of the quotient from the remainder carried into its place.
ShortDiv(x, y) ==
    LET n == Len(x) IN
    [quot |-> Strip(SubSeq([k \in 1..n |->
                               (Carried(x, k, y) * 1000 + x[k]) \div y],
                           1, n)),
     rem |-> NatOf(Carried(x, 0, y))]

\* x / 10^e rounded to the nearest integer, halves up, for e > 0: half of
\* 10^e is added, whole digits are dropped and the rest is divided.
TenthsRound(x, e) ==
    LET sum == NatAdd(x, NatMul(<<5>>, TenTo(e - 1)))
        kept == SubSeq(sum, e \div 3 + 1, Len(sum))
    IN ShortDiv(kept, IF e % 3 = 0 THEN 1 ELSE IF e % 3 = 1 THEN 10 ELSE 100).quot

\* The quotient of x by y # 0 rounded to the nearest integer, halves up.
NatDivRound(x, y) ==
    NatDiv(NatAdd(NatMul(x, <<2>>), y), NatMul(y, <<2>>))

RECURSIVE Gcd(_, _)
Gcd(a, b) == IF b = 0 THEN a ELSE Gcd(b, a % b)

\* Integers of any size: a sign and a magnitude.
ZNat(x) == [neg |-> FALSE, mag |-> x]

ZSub(a, b) ==
    IF a.neg # b.neg
    THEN [neg |-> a.neg, mag |-> NatAdd(a.mag, b.mag)]
    ELSE IF NatLess(a.mag, b.mag)
         THEN [neg |-> ~a.neg, mag |-> NatSub(b.mag, a.mag)]
         ELSE [neg |-> a.neg /\ a.mag # b.mag, mag |-> NatSub(a.mag, b.mag)]

ZMul(a, x) == [neg |-> a.neg /\ x # <<>>, mag |-> NatMul(a.mag, x)]

\* a / y rounded to the nearest integer, halves away from zero
ZRound(a, y) ==
    IF a.neg
    THEN 0 - IntOf(NatDivRound(a.mag, y))
    ELSE IntOf(NatDivRound(a.mag, y))

----------------------------------------------------------------------------
(* The loan engine (src/core_banking/loan_engine.py).  Amounts are in cents,
   annual rates in units of 0.0001 (the scale of Loan.interest_rate), and a
   stored amount is rounded to the cent as a DECIMAL(15,2) column stores it. *)

LOAN_TYPES ==
    [personal |-> [max_amount |-> 5000000, max_tenure_months |-> 60,
                   default_rate |-> 899],
     auto     |-> [max_amount |-> 7500000, max_tenure_months |-> 72,
                   default_rate |-> 499],
     home     |-> [max_amount |-> 100000000, max_tenure_months |-> 360,
                   default_rate |-> 349],
     business |-> [max_amount |-> 50000000, max_tenure_months |-> 120,
                   default_rate |-> 699]]

\* annual_rate / 12 as a fraction in lowest terms
MonthlyRate(annual_rate) ==
    LET g == Gcd(120000, annual_rate) IN
    [num |-> annual_rate \div g, den |-> 120000 \div g]

\* The Decimal quotient principal / tenure_months for principal > 0: the
\* quotient to 28 significant digits, halves to the even digit, as the
\* number coef / 10^exp of cents.
DecimalQuotient(principal, tenure_months) ==
    LET least == NatMul(NatOf(tenure_months), TenTo(27))
        scaled(e) == NatMul(NatOf(principal), TenTo(e))
        exp == CHOOSE e \in 0..36 :
                   /\ ~NatLess(scaled(e), least)
                   /\ e = 0 \/ NatLess(scaled(e - 1), least)
        d == IF tenure_months < 1000
             THEN ShortDiv(scaled(exp), tenure_months)
             ELSE DivFrom(scaled(exp), NatOf(tenure_months), 1)
        quot == Strip(d.quot)
        twice == NatMul(d.rem, <<2>>)
        up == \/ NatLess(NatOf(tenure_months), twice)
              \/ twice = NatOf(tenure_months) /\ Digit(quot, 1) % 2 = 1
    IN [coef |-> IF up THEN NatAdd(quot, <<1>>) ELSE quot, exp |-> exp]

\* As calculate_emi, but the fraction of a cent is dropped, not rounded.
calculate_emi_truncated(principal, annual_rate, tenure_months) ==
    LET monthly_rate == MonthlyRate(annual_rate)
        den == NatOf(monthly_rate.den)
        rate_power == NatPow(NatOf(monthly_rate.den + monthly_rate.num),
                             tenure_months)
        emi == NatDiv(
                   NatMul(NatMul(NatOf(principal), NatOf(monthly_rate.num)),
                          rate_power),
                   NatMul(den, NatSub(rate_power,
                                      NatPow(den, tenure_months))))
    IN IF annual_rate = 0
       THEN IF principal = 0
            THEN [coef |-> <<>>, exp |-> 0]
            ELSE DecimalQuotient(principal, tenure_months)
       ELSE [coef |-> emi, exp |-> 0]

\* calculate_emi for tenure_months # 0 (the source divides by zero otherwise):
\* P * r * (1 + r)^n / ((1 + r)^n - 1) rounded to the cent when the monthly
\* rate r is not zero, and the Decimal quotient P / n when it is.
calculate_emi(principal, annual_rate, tenure_months) ==
    LET monthly_rate == MonthlyRate(annual_rate)
        den == NatOf(monthly_rate.den)
        rate_power == NatPow(NatOf(monthly_rate.den + monthly_rate.num),
                             tenure_months)
        emi == NatDivRound(
                   NatMul(NatMul(NatOf(principal), NatOf(monthly_rate.num)),
                          rate_power),
                   NatMul(den, NatSub(rate_power,
                                      NatPow(den, tenure_months))))
    IN IF annual_rate = 0
       THEN IF principal = 0
            THEN [coef |-> <<>>, exp |-> 0]
            ELSE DecimalQuotient(principal, tenure_months)
       ELSE [coef |-> emi, exp |-> 0]

\* A Decimal amount as a DECIMAL(15,2) column stores it, in cents.
Stored(amount) ==
    IF amount.exp = 0
    THEN IntOf(amount.coef)
    ELSE IntOf(TenthsRound(amount.coef, amount.exp))

\* The rows generate_payment_schedule creates from month on, where outstanding
\* is the running balance and scale the number it is multiplied by to make
\* it whole (a power of the denominator of the monthly rate).
RECURSIVE ScheduleFrom(_, _, _, _)
ScheduleFrom(loan, month, outstanding, scale) ==
    IF month > loan.tenure_months
    THEN <<>>
    ELSE LET monthly_rate == MonthlyRate(loan.interest_rate)
             next == NatMul(scale, NatOf(monthly_rate.den))
             interest_amount == ZMul(outstanding, NatOf(monthly_rate.num))
             principal_amount ==
                 ZSub(ZNat(NatMul(NatOf(loan.emi_amount), next)),
                      interest_amount)
             remaining ==
                 ZSub(ZMul(outstanding, NatOf(monthly_rate.den)),
                      principal_amount)
         IN <<[payment_number |-> month,
               scheduled_amount |-> loan.emi_amount,
               paid_amount |-> 0,
               principal_amount |-> ZRound(principal_amount, next),
               interest_amount |-> ZRound(interest_amount, next),
               outstanding_balance |->
                   IF remaining.neg THEN 0 ELSE ZRound(remaining, next),
               status |-> "pending"]>>
            \o ScheduleFrom(loan, month + 1, remaining, next)

PaymentSchedule(loan) ==
    ScheduleFrom(loan, 1, ZNat(NatOf(loan.principal_amount)), <<1>>)

----------------------------------------------------------------------------
(* LoanEngine: application, approval, disbursement, schedule and payments.
   Every step of the loan engine ends in db.commit(), so its writes go to
   the committed tables at once.  Loan.id is the place of the row in loans;
   the foreign key of Loan.account_id is not enforced (the default database
   is SQLite), so an application may name an account that does not exist. *)

MaxLoans == 1
MaxRows == 3

LoanIds == 1..(MaxLoans + 1)
LoanPaymentIds == 1..(MaxRows + 2)

\* The arguments of create_loan_application: a known and an unknown type,
\* ten dollars, three cents more (an amount two equal instalments do not
\* divide) and one cent above the ceiling, tenures around the limits,
\* no rate, a rate of zero and 12 %, no account, an account and a missing one.
LoanTypeInputs == {"personal", "gold"}
PrincipalInputs == {1000, 1003, 5000001}
TenureInputs == {0, 1, 2, 61}
RateInputs == {<<>>, <<0>>, <<1200>>}
LoanAccounts == {"none", "a1", "a3"}

\* The arguments of process_loan_payment: one cent and a thousand dollars,
\* paid on time or a month late.
PaidAmounts == {1, 100000}
OverdueMonths == {0, 1}

\* "if not interest_rate": neither None nor a rate of zero counts as given.
RateGiven(interest_rate) == interest_rate # <<>> /\ interest_rate[1] # 0

LoanRow(c) ==
    LET interest_rate == IF RateGiven(c.interest_rate)
                         THEN c.interest_rate[1]
                         ELSE LOAN_TYPES[c.loan_type].default_rate
    IN [loan_type |-> c.loan_type, account_id |-> c.account_id,
        principal_amount |-> c.principal_amount,
        interest_rate |-> interest_rate,
        tenure_months |-> c.tenure_months,
        emi_amount |-> Stored(calculate_emi(c.principal_amount, interest_rate,
                                            c.tenure_months)),
        outstanding_balance |-> c.principal_amount,
        status |-> "pending", disbursed |-> FALSE]

Call_create_loan_application(p) ==
    \E t \in LoanTypeInputs, amt \in PrincipalInputs, n \in TenureInputs,
       r \in RateInputs, a \in LoanAccounts :
        /\ Len(loans) < MaxLoans
        /\ Begin(p, [op |-> "create_loan_application", loan_type |-> t,
                     principal_amount |-> amt, tenure_months |-> n,
                     interest_rate |-> r, account_id |-> a], 0)
        /\ pc' = [pc EXCEPT ![p] = "la_create"]
        /\ UNCHANGED <<accounts, transactions, ledger, nextId, session, locks,
                       frame>>
        /\ UNCHANGED payvars
        /\ UNCHANGED loanvars
        /\ UNCHANGED invvars

\* The three checks, the rate, the EMI (a division by zero for a tenure of
\* zero), Loan(...), db.add(loan), db.commit()
LA_Create(p) ==
    /\ pc[p] = "la_create"
    /\ LET c == call[p] IN
       IF c.loan_type \notin DOMAIN LOAN_TYPES
       THEN /\ Fail(p, "Invalid loan type")
            /\ UNCHANGED loans
       ELSE IF c.principal_amount > LOAN_TYPES[c.loan_type].max_amount
       THEN /\ Fail(p, "Loan amount exceeds maximum")
            /\ UNCHANGED loans
       ELSE IF c.tenure_months > LOAN_TYPES[c.loan_type].max_tenure_months
       THEN /\ Fail(p, "Tenure exceeds maximum")
            /\ UNCHANGED loans
       ELSE IF c.tenure_months = 0
       THEN /\ Fail(p, "float division by zero")
            /\ UNCHANGED loans
       ELSE /\ loans' = Append(loans, LoanRow(c))
            /\ pc' = [pc EXCEPT ![p] = "done"]
            /\ result' = [result EXCEPT ![p] = "ok"]
    /\ UNCHANGED <<accounts, transactions, ledger, nextId, session, locks,
                   call, frame, pre, loan_payments, nextPaymentId>>
    /\ UNCHANGED payvars
    /\ UNCHANGED invvars

Call_approve_loan(p) ==
    \E id \in LoanIds, disburse_immediately \in BOOLEAN :
        /\ nextPaymentId <= MaxRows
        /\ Begin(p, [op |-> "approve_loan", loan_id |-> id,
                     disburse_immediately |-> disburse_immediately], 1)
        /\ frame' = [frame EXCEPT ![p] = [NoFrame EXCEPT !.loan = id]]
        /\ pc' = [pc EXCEPT ![p] = "al_approve"]
        /\ UNCHANGED <<accounts, transactions, ledger, nextId, session, locks>>
        /\ UNCHANGED payvars
        /\ UNCHANGED loanvars
        /\ UNCHANGED invvars

\* As AL_Approve, but a loan of any status is approved.
AL_ApproveAnyStatus(p) ==
    /\ pc[p] = "al_approve"
    /\ LET id == frame[p].loan IN
       IF id \notin 1..Len(loans)
       THEN /\ Fail(p, "Loan not found")
            /\ UNCHANGED loans
       ELSE /\ loans' = [loans EXCEPT ![id].status = "approved"]
            /\ pc' = [pc EXCEPT ![p] = "gs_generate"]
            /\ UNCHANGED result
    /\ UNCHANGED <<accounts, transactions, ledger, nextId, session, locks,
                   call, frame, pre, loan_payments, nextPaymentId>>
    /\ UNCHANGED payvars
    /\ UNCHANGED invvars

\* The lookup, the check of the status, loan.status = "approved", db.commit()
AL_Approve(p) ==
    /\ pc[p] = "al_approve"
    /\ LET id == frame[p].loan IN
       IF id \notin 1..Len(loans)
       THEN /\ Fail(p, "Loan not found")
            /\ UNCHANGED loans
       ELSE IF loans[id].status # "pending"
       THEN /\ Fail(p, "Loan not in pending status")
            /\ UNCHANGED loans
       ELSE /\ loans' = [loans EXCEPT ![id].status = "approved"]
            /\ pc' = [pc EXCEPT ![p] = "gs_generate"]
            /\ UNCHANGED result
    /\ UNCHANGED <<accounts, transactions, ledger, nextId, session, locks,
                   call, frame, pre, loan_payments, nextPaymentId>>
    /\ UNCHANGED payvars
    /\ UNCHANGED invvars

Call_generate_payment_schedule(p) ==
    \E id \in LoanIds :
        /\ nextPaymentId <= MaxRows
        /\ Begin(p, [op |-> "generate_payment_schedule", loan_id |-> id], 0)
        /\ frame' = [frame EXCEPT ![p] = [NoFrame EXCEPT !.loan = id]]
        /\ pc' = [pc EXCEPT ![p] = "gs_generate"]
        /\ UNCHANGED <<accounts, transactions, ledger, nextId, session, locks>>
        /\ UNCHANGED payvars
        /\ UNCHANGED loanvars
        /\ UNCHANGED invvars

\* The LoanPayment rows of a schedule, with fresh ids from first on.
LoanPaymentRows(loan_id, first, schedule) ==
    {[id |-> first + k - 1, loan_id |-> loan_id,
      payment_number |-> schedule[k].payment_number,
      scheduled_amount |-> schedule[k].scheduled_amount,
      paid_amount |-> schedule[k].paid_amount,
      principal_amount |-> schedule[k].principal_amount,
      interest_amount |-> schedule[k].interest_amount,
      late_fee |-> 0,
      outstanding_balance |-> schedule[k].outstanding_balance,
      status |-> schedule[k].status] : k \in 1..Len(schedule)}

\* Where generate_payment_schedule returns to: approve_loan goes on to
\* disburse_loan "if disburse_immediately and loan.account_id".
AfterSchedule(c, loan) ==
    IF /\ c.op = "approve_loan"
       /\ c.disburse_immediately
       /\ loan.account_id # "none"
    THEN "dl_check"
    ELSE "done"

\* As GS_Generate, but the rows of the old schedule stay.
GS_GenerateKeepingRows(p) ==
    /\ pc[p] = "gs_generate"
    /\ LET id == frame[p].loan IN
       IF id \notin 1..Len(loans)
       THEN /\ Fail(p, "Loan not found")
            /\ UNCHANGED <<loan_payments, nextPaymentId>>
       ELSE LET schedule == PaymentSchedule(loans[id]) IN
            /\ loan_payments' =
                   loan_payments
                       \cup LoanPaymentRows(id, nextPaymentId, schedule)
            /\ nextPaymentId' = nextPaymentId + Len(schedule)
            /\ pc' = [pc EXCEPT ![p] = AfterSchedule(call[p], loans[id])]
            /\ result' = [result EXCEPT ![p] =
                   IF AfterSchedule(call[p], loans[id]) = "done"
                   THEN "ok" ELSE @]
    /\ UNCHANGED <<accounts, transactions, ledger, nextId, session, locks,
                   call, frame, pre, loans>>
    /\ UNCHANGED payvars
    /\ UNCHANGED invvars

\* The lookup, the delete of the loan's rows, one LoanPayment per month,
\* db.commit()
GS_Generate(p) ==
    /\ pc[p] = "gs_generate"
    /\ LET id == frame[p].loan IN
       IF id \notin 1..Len(loans)
       THEN /\ Fail(p, "Loan not found")
            /\ UNCHANGED <<loan_payments, nextPaymentId>>
       ELSE LET schedule == PaymentSchedule(loans[id]) IN
            /\ loan_payments' =
                   {r \in loan_payments : r.loan_id # id}
                       \cup LoanPaymentRows(id, nextPaymentId, schedule)
            /\ nextPaymentId' = nextPaymentId + Len(schedule)
            /\ pc' = [pc EXCEPT ![p] = AfterSchedule(call[p], loans[id])]
            /\ result' = [result EXCEPT ![p] =
                   IF AfterSchedule(call[p], loans[id]) = "done"
                   THEN "ok" ELSE @]
    /\ UNCHANGED <<accounts, transactions, ledger, nextId, session, locks,
                   call, frame, pre, loans>>
    /\ UNCHANGED payvars
    /\ UNCHANGED invvars

Call_disburse_loan(p) ==
    \E id \in LoanIds :
        /\ Begin(p, [op |-> "disburse_loan", loan_id |-> id], 1)
        /\ frame' = [frame EXCEPT ![p] = [NoFrame EXCEPT !.loan = id]]
        /\ pc' = [pc EXCEPT ![p] = "dl_check"]
        /\ UNCHANGED <<accounts, transactions, ledger, nextId, session, locks>>
        /\ UNCHANGED payvars
        /\ UNCHANGED loanvars
        /\ UNCHANGED invvars

\* As DL_Check, but a loan of any status is disbursed.
DL_CheckAnyStatus(p) ==
    /\ pc[p] = "dl_check"
    /\ LET id == frame[p].loan IN
       IF id \notin 1..Len(loans)
       THEN /\ Fail(p, "Loan not found")
            /\ UNCHANGED frame
       ELSE IF loans[id].account_id = "none"
       THEN /\ Fail(p, "Loan must have an associated account")
            /\ UNCHANGED frame
       ELSE /\ Enter(p, loans[id].account_id, "credit",
                     loans[id].principal_amount, "disburse")
            /\ pc' = [pc EXCEPT ![p] = "pt_lock"]
            /\ UNCHANGED result
    /\ UNCHANGED <<accounts, transactions, ledger, nextId, session, locks,
                   call, pre>>
    /\ UNCHANGED payvars
    /\ UNCHANGED loanvars
    /\ UNCHANGED invvars

\* The lookup and the three checks of disburse_loan, then the call of
\* process_transaction that credits the principal.
DL_Check(p) ==
    /\ pc[p] = "dl_check"
    /\ LET id == frame[p].loan IN
       IF id \notin 1..Len(loans)
       THEN /\ Fail(p, "Loan not found")
            /\ UNCHANGED frame
       ELSE IF loans[id].status # "approved"
       THEN /\ Fail(p, "Loan must be approved before disbursement")
            /\ UNCHANGED frame
       ELSE IF loans[id].account_id = "none"
       THEN /\ Fail(p, "Loan must have an associated account")
            /\ UNCHANGED frame
       ELSE IF loans[id].disbursed
       THEN /\ Fail(p, "Loan already disbursed")
            /\ UNCHANGED frame
       ELSE /\ Enter(p, loans[id].account_id, "credit",
                     loans[id].principal_amount, "disburse")
            /\ pc' = [pc EXCEPT ![p] = "pt_lock"]
            /\ UNCHANGED result
    /\ UNCHANGED <<accounts, transactions, ledger, nextId, session, locks,
                   call, pre>>
    /\ UNCHANGED payvars
    /\ UNCHANGED loanvars
    /\ UNCHANGED invvars

\* loan.status = "active", the disbursement and maturity dates, db.commit()
DL_Activate(p) ==
    /\ pc[p] = "dl_activate"
    /\ loans' = [loans EXCEPT ![frame[p].loan].status = "active",
                              ![frame[p].loan].disbursed = TRUE]
    /\ pc' = [pc EXCEPT ![p] = "done"]
    /\ result' = [result EXCEPT ![p] = "ok"]
    /\ UNCHANGED <<accounts, transactions, ledger, nextId, session, locks,
                   call, frame, pre, loan_payments, nextPaymentId>>
    /\ UNCHANGED payvars
    /\ UNCHANGED invvars

\* months_overdue is how far today is past the row's due date, in started
\* months of thirty days (0: not past it).
Call_process_loan_payment(p) ==
    \E id \in LoanPaymentIds, amt \in PaidAmounts, late \in OverdueMonths :
        /\ Begin(p, [op |-> "process_loan_payment", loan_payment_id |-> id,
                     amount |-> amt, months_overdue |-> late], 0)
        /\ pc' = [pc EXCEPT ![p] = "lp_pay"]
        /\ UNCHANGED <<accounts, transactions, ledger, nextId, session, locks,
                       frame>>
        /\ UNCHANGED payvars
        /\ UNCHANGED loanvars
        /\ UNCHANGED invvars

\* The row a call of process_loan_payment leaves behind.
PaidRow(payment, c) ==
    LET late_fee == IF c.months_overdue > 0 /\ payment.status = "pending"
                    THEN 2500 * c.months_overdue
                    ELSE 0
        total_due == payment.scheduled_amount + late_fee
    IN IF c.amount < total_due
       THEN [payment EXCEPT !.paid_amount = c.amount, !.status = "partial",
                            !.late_fee = late_fee]
       ELSE [payment EXCEPT !.paid_amount = total_due, !.status = "paid",
                            !.late_fee = late_fee]

\* The loan a call of process_loan_payment on the row leaves behind.
PaidLoan(loan, payment) ==
    LET outstanding_balance ==
            IF payment.principal_amount # 0
            THEN loan.outstanding_balance - payment.principal_amount
            ELSE loan.outstanding_balance
    IN IF outstanding_balance <= 0
       THEN [loan EXCEPT !.status = "closed", !.outstanding_balance = 0]
       ELSE [loan EXCEPT !.outstanding_balance = outstanding_balance]

\* As LP_Pay, but a row already paid is paid again.
LP_PayAnyStatus(p) ==
    /\ pc[p] = "lp_pay"
    /\ LET found == {r \in loan_payments : r.id = call[p].loan_payment_id} IN
       IF found = {}
       THEN /\ Fail(p, "Loan payment not found")
            /\ UNCHANGED <<loans, loan_payments>>
       ELSE LET payment == CHOOSE r \in found : TRUE IN
            /\ loan_payments' =
                   (loan_payments \ {payment}) \cup {PaidRow(payment, call[p])}
            /\ loans' = [loans EXCEPT ![payment.loan_id] =
                             PaidLoan(@, payment)]
            /\ pc' = [pc EXCEPT ![p] = "done"]
            /\ result' = [result EXCEPT ![p] = "ok"]
    /\ UNCHANGED <<accounts, transactions, ledger, nextId, session, locks,
                   call, frame, pre, nextPaymentId>>
    /\ UNCHANGED payvars
    /\ UNCHANGED invvars

\* The lookup, the check of the row's status, the late fee, the row, the
\* loan's outstanding balance and status, db.commit()
LP_Pay(p) ==
    /\ pc[p] = "lp_pay"
    /\ LET found == {r \in loan_payments : r.id = call[p].loan_payment_id} IN
       IF found = {}
       THEN /\ Fail(p, "Loan payment not found")
            /\ UNCHANGED <<loans, loan_payments>>
       ELSE LET payment == CHOOSE r \in found : TRUE IN
            IF payment.status = "paid"
            THEN /\ Fail(p, "Payment already processed")
                 /\ UNCHANGED <<loans, loan_payments>>
            ELSE /\ loan_payments' =
                        (loan_payments \ {payment})
                            \cup {PaidRow(payment, call[p])}
                 /\ loans' = [loans EXCEPT ![payment.loan_id] =
                                  PaidLoan(@, payment)]
                 /\ pc' = [pc EXCEPT ![p] = "done"]
                 /\ result' = [result EXCEPT ![p] = "ok"]
    /\ UNCHANGED <<accounts, transactions, ledger, nextId, session, locks,
                   call, frame, pre, nextPaymentId>>
    /\ UNCHANGED payvars
    /\ UNCHANGED invvars

LoanSteps(p) ==
    \/ LA_Create(p)
    \/ AL_Approve(p)
    \/ GS_Generate(p)
    \/ DL_Check(p)
    \/ DL_Activate(p)
    \/ LP_Pay(p)

\* The accounts before the first loan: a1 holds any of the initial balances,
\* a2 (which no loan names) holds nothing, a3 does not exist.
InitLoan == Init /\ accounts["a2"] = AccountRow(0)

\* One caller of the loan engine.
NextLoan ==
    \/ Call_create_loan_application("p1")
    \/ Call_approve_loan("p1")
    \/ Call_disburse_loan("p1")
    \/ Call_generate_payment_schedule("p1")
    \/ Call_process_loan_payment("p1")
    \/ LoanSteps("p1")
    \/ ProcessTransactionSteps("p1")

SpecLoan == InitLoan /\ [][NextLoan]_vars

\* One caller who applies, approves, disburses and pays, and leaves the
\* making of schedules to approve_loan.
NextRepay ==
    \/ Call_create_loan_application("p1")
    \/ Call_approve_loan("p1")
    \/ Call_disburse_loan("p1")
    \/ Call_process_loan_payment("p1")
    \/ LoanSteps("p1")
    \/ ProcessTransactionSteps("p1")

SpecRepay == InitLoan /\ [][NextRepay]_vars

----------------------------------------------------------------------------
\* The three conditions under which create_loan_application refuses c.
BeyondCeilings(c) ==
    IF c.loan_type \notin DOMAIN LOAN_TYPES
    THEN TRUE
    ELSE \/ c.principal_amount > LOAN_TYPES[c.loan_type].max_amount
         \/ c.tenure_months > LOAN_TYPES[c.loan_type].max_tenure_months

\* The ended call c has added exactly one Loan, pending, with the principal
\* outstanding.
OneLoanApplied(before, c) ==
    /\ Len(loans) = Len(before) + 1
    /\ SubSeq(loans, 1, Len(before)) = before
    /\ loans[Len(loans)].status = "pending"
    /\ loans[Len(loans)].principal_amount = c.principal_amount
    /\ loans[Len(loans)].outstanding_balance = c.principal_amount

(* C22: create_loan_application fails with an invalid-argument error and
   persists no Loan when the loan type is unknown, the principal exceeds the
   type's maximum amount, or the tenure exceeds the type's maximum tenure;
   otherwise it persists exactly one Loan in status pending with
   outstanding_balance = principal_amount. *)
C22_ApplicationCheckedAndPersisted ==
    \A p \in Procs :
        Finished(p, "create_loan_application")
        => IF BeyondCeilings(call[p])
           THEN /\ result[p] \in {"Invalid loan type",
                                  "Loan amount exceeds maximum",
                                  "Tenure exceeds maximum"}
                /\ loans = pre[p].loans
           ELSE /\ result[p] = "ok"
                /\ OneLoanApplied(pre[p].loans, call[p])

\* The case of C22 that fails: an application for a personal loan of ten
\* dollars over zero months has ended in a division by zero, and no Loan
\* was persisted.
C22_Witness ==
    /\ Finished("p1", "create_loan_application")
    /\ ~BeyondCeilings(call["p1"])
    /\ call["p1"].tenure_months = 0
    /\ result["p1"] = "float division by zero"
    /\ loans = pre["p1"].loans

\* C22 for a tenure of at least one month: there the claim holds.
C22_HoldsForPositiveTenure ==
    \A p \in Procs :
        (Finished(p, "create_loan_application") /\ call[p].tenure_months > 0)
        => IF BeyondCeilings(call[p])
           THEN /\ result[p] \in {"Invalid loan type",
                                  "Loan amount exceeds maximum",
                                  "Tenure exceeds maximum"}
                /\ loans = pre[p].loans
           ELSE /\ result[p] = "ok"
                /\ OneLoanApplied(pre[p].loans, call[p])

----------------------------------------------------------------------------
\* The LoanPayment rows of loan id.
RowsOf(id) == {r \in loan_payments : r.loan_id = id}

\* Loan id has a schedule of one pending row for each month of its tenure.
PendingSchedule(id) ==
    /\ Cardinality(RowsOf(id)) = loans[id].tenure_months
    /\ {r.payment_number : r \in RowsOf(id)} = 1..loans[id].tenure_months
    /\ \A r \in RowsOf(id) : r.status = "pending"

(* C23: approve_loan is accepted only for a pending loan; on a loan of any
   other status it fails with "Loan not in pending status" and nothing
   changes.  After approve_loan(id), called as the specification has it
   (disburse_immediately left at its default), succeeds on a loan linked to
   an existing account, the loan is active, the account was credited exactly
   principal_amount by one Transaction, and the loan has a schedule of
   tenure_months pending rows; on a loan without a linked account (and on
   any loan when the caller passes disburse_immediately = False) the loan is
   approved, the schedule exists and no balance changed. *)
C23_ApprovalDisbursesToLinkedAccount ==
    \A p \in Procs :
        LET c == call[p]
            before == pre[p]
        IN (Finished(p, "approve_loan") /\ c.loan_id \in 1..Len(before.loans))
           => LET loan == before.loans[c.loan_id] IN
              IF loan.status # "pending"
              THEN /\ result[p] = "Loan not in pending status"
                   /\ Committed = before
              ELSE IF ~c.disburse_immediately \/ loan.account_id = "none"
              THEN /\ result[p] = "ok"
                   /\ loans = [before.loans EXCEPT
                                   ![c.loan_id].status = "approved"]
                   /\ PendingSchedule(c.loan_id)
                   /\ accounts = before.accounts
                   /\ transactions = before.transactions
              ELSE Exists(before, loan.account_id)
                   => /\ result[p] = "ok"
                      /\ loans = [before.loans EXCEPT
                                      ![c.loan_id].status = "active",
                                      ![c.loan_id].disbursed = TRUE]
                      /\ PendingSchedule(c.loan_id)
                      /\ accounts = [before.accounts EXCEPT
                             ![loan.account_id].balance =
                                 @ + loan.principal_amount,
                             ![loan.account_id].available_balance =
                                 before.accounts[loan.account_id].balance
                                     + loan.principal_amount]
                      /\ \E t \in transactions :
                             /\ transactions = before.transactions \cup {t}
                             /\ t \notin before.transactions
                             /\ t.transaction_type = "credit"
                             /\ t.account_id = loan.account_id
                             /\ t.amount = loan.principal_amount

\* The case of C23: approve_loan has succeeded on a pending loan of two
\* months linked to account a1, which now holds the principal more.
C23_Witness ==
    /\ Finished("p1", "approve_loan")
    /\ result["p1"] = "ok"
    /\ call["p1"].disburse_immediately
    /\ call["p1"].loan_id \in 1..Len(loans)
    /\ pre["p1"].loans[call["p1"].loan_id].status = "pending"
    /\ loans[call["p1"].loan_id].account_id = "a1"
    /\ loans[call["p1"].loan_id].tenure_months = 2
    /\ loans[call["p1"].loan_id].status = "active"
    /\ Cardinality(RowsOf(call["p1"].loan_id)) = 2
    /\ accounts["a1"].balance
         = pre["p1"].accounts["a1"].balance
             + loans[call["p1"].loan_id].principal_amount

----------------------------------------------------------------------------
\* The loans linked to account a whose principal has been paid out.
DisbursedTo(a) ==
    {id \in 1..Len(loans) : loans[id].disbursed /\ loans[id].account_id = a}

\* The callers between the credit of a disbursement to account a and the
\* update of the loan.
Disbursing(a) ==
    {p \in Procs : pc[p] = "dl_activate" /\ frame[p].account_id = a}

(* C24: over any sequence of approve_loan, disburse_loan,
   generate_payment_schedule and process_loan_payment calls a loan's
   principal is credited to its linked account at most once: the credits
   posted to an account are as many as the disbursed loans linked to it (and
   the disbursement in progress), each of the principal of such a loan.
   disburse_loan fails, without changing any table, when the loan is not
   approved, has no linked account, or already has a disbursement date; a
   successful disbursement credits exactly principal_amount to the linked
   account and sets status active. *)
C24_PrincipalCreditedAtMostOnce ==
    /\ \A a \in AccountIds :
          /\ Cardinality(TransactionsOf(a))
               = Cardinality(DisbursedTo(a)) + Cardinality(Disbursing(a))
          /\ \A t \in TransactionsOf(a) :
                /\ t.transaction_type = "credit"
                /\ \E id \in 1..Len(loans) :
                       /\ loans[id].account_id = a
                       /\ loans[id].principal_amount = t.amount
    /\ \A p \in Procs :
          LET c == call[p]
              before == pre[p]
          IN (Finished(p, "disburse_loan")
              /\ c.loan_id \in 1..Len(before.loans))
             => LET loan == before.loans[c.loan_id] IN
                IF \/ loan.status # "approved"
                   \/ loan.account_id = "none"
                   \/ loan.disbursed
                THEN /\ result[p] \in
                          {"Loan must be approved before disbursement",
                           "Loan must have an associated account",
                           "Loan already disbursed"}
                     /\ Committed = before
                ELSE Exists(before, loan.account_id)
                     => /\ result[p] = "ok"
                        /\ loans = [before.loans EXCEPT
                                        ![c.loan_id].status = "active",
                                        ![c.loan_id].disbursed = TRUE]
                        /\ accounts[loan.account_id].balance
                             = before.accounts[loan.account_id].balance
                                 + loan.principal_amount
                        /\ Cardinality(transactions)
                             = Cardinality(before.transactions) + 1

\* The case of C24: a second disburse_loan on a loan that is active and
\* has its disbursement date has been refused, and nothing changed.
C24_Witness ==
    /\ Finished("p1", "disburse_loan")
    /\ call["p1"].loan_id \in 1..Len(loans)
    /\ pre["p1"].loans[call["p1"].loan_id].disbursed
    /\ pre["p1"].loans[call["p1"].loan_id].status = "active"
    /\ result["p1"] = "Loan must be approved before disbursement"
    /\ Committed = pre["p1"]

----------------------------------------------------------------------------
\* The statuses of loan id before and after a step, when the step changes it.
StatusMoves ==
    {<<loans[id].status, loans'[id].status>> :
        id \in {i \in 1..Len(loans) : loans'[i].status # loans[i].status}}

(* C25: a loan's status only moves along pending -> approved -> active ->
   closed: every step that changes the status of a loan takes it from
   pending to approved, from approved to active or from active to closed, so
   that no operation moves a pending or an approved, never disbursed loan
   to closed. *)
C25_StatusMovesAlongLifecycle ==
    [][StatusMoves \subseteq {<<"pending", "approved">>,
                              <<"approved", "active">>,
                              <<"active", "closed">>}]_vars

\* The case of C25 that fails: a loan is closed that was never disbursed.
C25_Witness ==
    \E id \in 1..Len(loans) :
        loans[id].status = "closed" /\ ~loans[id].disbursed

\* What holds of C25: a loan becomes active only from approved and approved
\* only from pending; the moves the claim excludes are those of
\* process_loan_payment from pending and from approved to closed.
C25_OnlyPaymentsSkipActive ==
    [][/\ StatusMoves \subseteq {<<"pending", "approved">>,
                                 <<"approved", "active">>,
                                 <<"active", "closed">>,
                                 <<"pending", "closed">>,
                                 <<"approved", "closed">>}
       /\ StatusMoves \cap {<<"pending", "closed">>, <<"approved", "closed">>}
              # {}
          => pc["p1"] = "lp_pay"]_vars

----------------------------------------------------------------------------
\* The sum of the principal components of a set of LoanPayment rows.
RECURSIVE SumOfPrincipal(_)
SumOfPrincipal(rows) ==
    IF rows = {}
    THEN 0
    ELSE LET r == CHOOSE x \in rows : TRUE IN
         r.principal_amount + SumOfPrincipal(rows \ {r})

\* The rows of loan id that have received a payment.
RowsPaidOn(id) == {r \in RowsOf(id) : r.status \in {"partial", "paid"}}

(* C26: each row's principal component is applied to the loan at most once:
   in every reachable state outstanding_balance = max(0, principal_amount -
   the sum of the principal components of the distinct rows that have
   received a payment), whatever number of process_loan_payment calls,
   repeated partial payments on one row included, were made. *)
C26_OutstandingIsPrincipalLessPaidRows ==
    \A id \in 1..Len(loans) :
        LET left == loans[id].principal_amount
                        - SumOfPrincipal(RowsPaidOn(id))
        IN loans[id].outstanding_balance = IF left < 0 THEN 0 ELSE left

\* The case of C26 that fails: after two partial payments on the first row
\* of a loan of two months, whose second row is still pending, the
\* principal component of the first row has been taken off twice.
C26_Witness ==
    \E r \in loan_payments :
        /\ r.status = "partial"
        /\ r.payment_number = 1
        /\ r.principal_amount > 0
        /\ loans[r.loan_id].tenure_months = 2
        /\ \A x \in RowsOf(r.loan_id) \ {r} : x.status = "pending"
        /\ loans[r.loan_id].outstanding_balance
             = loans[r.loan_id].principal_amount - 2 * r.principal_amount

----------------------------------------------------------------------------
\* The row a call of process_loan_payment named, as it was when the call
\* began.
RowsNamed(p) ==
    {r \in pre[p].loan_payments : r.id = call[p].loan_payment_id}

(* C27: process_loan_payment on a schedule row whose status is already paid
   fails ("Payment already processed") and leaves the row, the loan's
   outstanding_balance and the loan's status, with every other committed
   table, as they were. *)
C27_PaidRowIsRefused ==
    \A p \in Procs :
        (Finished(p, "process_loan_payment")
         /\ \E r \in RowsNamed(p) : r.status = "paid")
        => /\ result[p] = "Payment already processed"
           /\ Committed = pre[p]

\* The case of C27: a second payment on a paid row of a loan that still has
\* a balance outstanding has been refused.
C27_Witness ==
    /\ Finished("p1", "process_loan_payment")
    /\ result["p1"] = "Payment already processed"
    /\ \E r \in loan_payments :
          /\ r.id = call["p1"].loan_payment_id
          /\ r.status = "paid"
          /\ r.paid_amount = r.scheduled_amount
          /\ loans[r.loan_id].outstanding_balance > 0
          /\ loans[r.loan_id].status # "closed"

----------------------------------------------------------------------------
\* The rows of loan id are as many as its months and numbered 1..months.
NumberedSchedule(id) ==
    /\ Cardinality(RowsOf(id)) = loans[id].tenure_months
    /\ {r.payment_number : r \in RowsOf(id)} = 1..loans[id].tenure_months

\* A call that makes the schedule of loan id has finished well.
ScheduleMade(p, id) ==
    /\ \/ Finished(p, "generate_payment_schedule")
       \/ Finished(p, "approve_loan")
    /\ result[p] = "ok"
    /\ call[p].loan_id = id

(* C28: once a schedule has been generated for a loan, the loan has in every
   later state exactly tenure_months LoanPayment rows, numbered
   1..tenure_months without duplicates, also after generate_payment_schedule
   has been called again: a finished generation leaves such rows, and no
   step takes a loan that has rows to anything else. *)
C28_ScheduleHasOneRowPerMonth ==
    [][\A id \in 1..Len(loans') :
          /\ (\E p \in Procs : ScheduleMade(p, id)') => NumberedSchedule(id)'
          /\ RowsOf(id) # {} => NumberedSchedule(id)']_vars

\* The case of C28: a two-month loan whose schedule was generated a second
\* time has two rows, both made by the second generation.
C28_Witness ==
    /\ Finished("p1", "generate_payment_schedule")
    /\ result["p1"] = "ok"
    /\ call["p1"].loan_id \in 1..Len(loans)
    /\ loans[call["p1"].loan_id].tenure_months = 2
    /\ RowsOf(call["p1"].loan_id) # {}
    /\ \A r \in RowsOf(call["p1"].loan_id) : r.id > 2
    /\ pre["p1"].loan_payments # {}

----------------------------------------------------------------------------
(* calculate_emi and the schedule of an accepted application, over a grid
   of principals, rates and tenures *)

EmiTypes == {"personal", "business"}

\* amounts in cents
EmiPrincipals == {1, 1415, 100000, 1000000, 1200000}

EmiTenures == {1, 2, 6, 12}

\* annual rates in units of 0.0001, as calculate_emi receives them
EmiRates == {0, 899, 1200, 24000}

\* The calls whose arguments are drawn: calculate_emi itself, and
\* create_loan_application with no rate, a rate of zero, or a rate.
EmiCalls ==
    {[op |-> "calculate_emi", principal |-> amt, annual_rate |-> r,
      tenure_months |-> n] :
         amt \in EmiPrincipals, r \in EmiRates, n \in EmiTenures}
    \cup
    {[op |-> "create_loan_application", loan_type |-> t.type,
      principal_amount |-> amt, tenure_months |-> n,
      interest_rate |-> t.rate, account_id |-> "none"] :
         amt \in EmiPrincipals, n \in EmiTenures,
         t \in {[type |-> ty, rate |-> r] :
                   ty \in EmiTypes,
                   r \in {<<>>} \cup {<<x>> : x \in EmiRates}}}

\* return of calculate_emi; it reads its arguments and writes nothing
CE_Calculate(p) ==
    /\ pc[p] = "ce_calculate"
    /\ result' = [result EXCEPT ![p] =
                      calculate_emi(call[p].principal, call[p].annual_rate,
                                    call[p].tenure_months)]
    /\ pc' = [pc EXCEPT ![p] = "done"]
    /\ UNCHANGED <<accounts, transactions, ledger, nextId, session, locks,
                   call, frame, pre>>
    /\ UNCHANGED payvars
    /\ UNCHANGED loanvars
    /\ UNCHANGED invvars

\* One call with drawn arguments has been made on the empty tables.
InitEmi ==
    /\ accounts = [a \in OpenAccounts |-> AccountRow(0)]
    /\ transactions = {}
    /\ ledger = {}
    /\ nextId = 1
    /\ session = [p \in Procs |-> NoSession]
    /\ locks = [p \in Procs |-> NoLocks]
    /\ call \in {[p \in Procs |-> IF p = "p1" THEN c ELSE NoCall] :
                    c \in EmiCalls}
    /\ pc = [p \in Procs |->
                IF p # "p1" THEN "idle"
                ELSE IF call[p].op = "calculate_emi" THEN "ce_calculate"
                ELSE "la_create"]
    /\ frame = [p \in Procs |-> NoFrame]
    /\ result = [p \in Procs |-> "none"]
    /\ payments = <<>>
    /\ bill_payments = <<>>
    /\ billers = {}
    /\ loans = <<>>
    /\ loan_payments = {}
    /\ nextPaymentId = 1
    /\ investments = <<>>
    /\ trades = <<>>
    /\ pre = [p \in Procs |-> IF p = "p1" THEN Committed ELSE NoPre]

\* The call is answered; the schedule of the loan it made is generated.
NextEmi ==
    \/ CE_Calculate("p1")
    \/ LA_Create("p1")
    \/ Call_generate_payment_schedule("p1")
    \/ GS_Generate("p1")
    \/ Raise("p1")
    \/ Return("p1")

SpecEmi == InitEmi /\ [][NextEmi]_vars

----------------------------------------------------------------------------
\* The distance between two amounts.
Apart(a, b) == IF a < b THEN b - a ELSE a - b

(* C29: for every loan accepted by create_loan_application (principal and
   tenure within the ceilings of its type, default or supplied rate), the
   principal components of the generated schedule add up to the original
   principal to within one cent per month of the tenure. *)
C29_ScheduleRepaysThePrincipal ==
    \A id \in 1..Len(loans) :
        NumberedSchedule(id)
        => Apart(SumOfPrincipal(RowsOf(id)), loans[id].principal_amount)
             <= loans[id].tenure_months

\* The case of C29: the schedule of an accepted personal loan of 14.15 over
\* six months at a supplied annual rate of 2.4 repays 14.08.
C29_Witness ==
    /\ Finished("p1", "generate_payment_schedule")
    /\ result["p1"] = "ok"
    /\ Len(loans) = 1
    /\ loans[1].loan_type = "personal"
    /\ loans[1].principal_amount = 1415
    /\ loans[1].interest_rate = 24000
    /\ loans[1].tenure_months = 6
    /\ loans[1].emi_amount = 425
    /\ NumberedSchedule(1)
    /\ SumOfPrincipal(RowsOf(1)) = 1408

\* C29 holds for the loans of the grid that carry the default rate of their
\* type or an annual rate of 0.12.
C29_HoldsForModestRates ==
    \A id \in 1..Len(loans) :
        (NumberedSchedule(id) /\ loans[id].interest_rate <= 1200)
        => Apart(SumOfPrincipal(RowsOf(id)), loans[id].principal_amount)
             <= loans[id].tenure_months

----------------------------------------------------------------------------
\* P * r * (1 + r)^n and (1 + r)^n - 1 for the monthly rate r of annual_rate,
\* both multiplied by the same whole number.
EmiFraction(principal, annual_rate, tenure_months) ==
    LET r == MonthlyRate(annual_rate)
        grown == NatPow(NatOf(r.den + r.num), tenure_months)
    IN [num |-> NatMul(NatMul(NatOf(principal), NatOf(r.num)), grown),
        den |-> NatMul(NatOf(r.den),
                       NatSub(grown, NatPow(NatOf(r.den), tenure_months)))]

\* x / unit is one of the whole numbers nearest to num / den.
Nearest(x, unit, num, den) ==
    LET got == NatMul(x, den)
        want == NatMul(num, unit)
        off == IF NatLess(got, want) THEN NatSub(want, got)
               ELSE NatSub(got, want)
    IN ~NatLess(NatMul(den, unit), NatMul(off, <<2>>))

(* C30: calculate_emi is a pure function. For a monthly rate r > 0 it
   returns P * r * (1 + r)^n / ((1 + r)^n - 1) rounded to the cent (888.49
   for P = 10000, annual rate 0.12, n = 12); for r = 0 it returns P / n, not
   rounded to the cent: the Decimal quotient, which is P / n itself wherever
   that has at most 28 significant digits (1000.00 for P = 12000, n = 12)
   and the nearest number of 28 digits otherwise. It changes no stored
   state. *)
C30_EmiIsTheAnnuityFormula ==
    \A p \in Procs :
        Finished(p, "calculate_emi")
        => LET c == call[p]
               emi == result[p]
               unit == NatPow(<<10>>, emi.exp)
               f == EmiFraction(c.principal, c.annual_rate, c.tenure_months)
           IN /\ Committed = pre[p]
              /\ c.annual_rate > 0
                 => /\ emi.exp = 0
                    /\ Nearest(emi.coef, <<1>>, f.num, f.den)
              /\ c.annual_rate = 0
                 => /\ Nearest(emi.coef, unit, NatOf(c.principal),
                               NatOf(c.tenure_months))
                    /\ ~NatLess(emi.coef, NatPow(<<10>>, 27))
                    /\ NatLess(emi.coef, NatPow(<<10>>, 28))
              /\ (c.principal = 1000000 /\ c.annual_rate = 1200
                  /\ c.tenure_months = 12)
                 => emi = [coef |-> NatOf(88849), exp |-> 0]
              /\ (c.principal = 1200000 /\ c.annual_rate = 0
                  /\ c.tenure_months = 12)
                 => /\ NatMul(emi.coef, <<12>>) = NatMul(NatOf(1200000), unit)
                    /\ Stored(emi) = 100000

\* The case of C30: calculate_emi has returned 888.49 for 10000 at 0.12 over
\* twelve months, with the tables as they were.
C30_Witness ==
    /\ Finished("p1", "calculate_emi")
    /\ call["p1"].principal = 1000000
    /\ call["p1"].annual_rate = 1200
    /\ call["p1"].tenure_months = 12
    /\ result["p1"].coef = NatOf(88849)
    /\ Committed = pre["p1"]

\* The other case of C30: at a rate of zero calculate_emi has returned a
\* third of 10000, which no number of cents equals.
C30_WitnessZeroRate ==
    /\ Finished("p1", "calculate_emi")
    /\ call["p1"].principal = 1000000
    /\ call["p1"].annual_rate = 0
    /\ call["p1"].tenure_months = 6
    /\ result["p1"].exp > 0
    /\ Stored(result["p1"]) = 166667

----------------------------------------------------------------------------
(* InvestmentManager: positions and trades.  Quantities are whole units,   *)
(* prices and trade totals are counted in cents, and average_cost, a       *)
(* DECIMAL(15,4) column, in units of 0.0001.  One caller at a time works   *)
(* on a position.                                                          *)

MaxTrades == 3

\* Customer rows; the accounts of the model all belong to the first.
Customers == {"c1", "c2"}

INVESTMENT_TYPES == {"stock", "etf", "mutual_fund", "bond", "crypto"}

\* place_order(customer_id, trade_type, symbol, quantity, price,
\* investment_type) as the callers make it
PlaceOrderCalls ==
    {[op |-> "place_order", customer_id |-> "c1", trade_type |-> t,
      symbol |-> "AAPL", quantity |-> q, price |-> x,
      investment_type |-> "stock"] :
         t \in {"buy", "sell"}, q \in {0, 1, 10}, x \in {10000, 20000}}
    \cup
    {[op |-> "place_order", customer_id |-> "c1", trade_type |-> t,
      symbol |-> "MSFT", quantity |-> 1, price |-> 10000,
      investment_type |-> "stock"] : t \in {"buy", "sell"}}
    \cup
    {[op |-> "place_order", customer_id |-> c.customer_id,
      trade_type |-> c.trade_type, symbol |-> "MSFT", quantity |-> 1,
      price |-> 10000, investment_type |-> c.investment_type] :
         c \in {[customer_id |-> "c1", trade_type |-> "hold",
                 investment_type |-> "stock"],
                [customer_id |-> "c1", trade_type |-> "buy",
                 investment_type |-> "gold"],
                [customer_id |-> "c2", trade_type |-> "buy",
                 investment_type |-> "stock"],
                [customer_id |-> "c9", trade_type |-> "buy",
                 investment_type |-> "stock"]}}

\* Investment(...) of open_investment_account, then investment.symbol
InvestmentRow(customer_id, account_id, investment_type, symbol) ==
    [customer_id |-> customer_id, account_id |-> account_id,
     investment_type |-> investment_type, symbol |-> symbol, quantity |-> 0,
     average_cost |-> 0, current_price |-> 0, status |-> "active"]

\* Trade(...) of place_order
TradeRow(c, investment_id) ==
    [investment_id |-> investment_id, trade_type |-> c.trade_type,
     symbol |-> c.symbol, quantity |-> c.quantity, price |-> c.price,
     total_amount |-> c.quantity * c.price, status |-> "pending"]

Call_place_order(p) ==
    \E c \in PlaceOrderCalls :
        /\ Len(trades) < MaxTrades
        /\ Begin(p, c, 0)
        /\ pc' = [pc EXCEPT ![p] = "po_position"]
        /\ UNCHANGED <<accounts, transactions, ledger, nextId, session, locks,
                       frame>>
        /\ UNCHANGED payvars
        /\ UNCHANGED loanvars
        /\ UNCHANGED invvars

\* The trade type check, then find or create the position:
\* open_investment_account commits the new row, place_order its symbol.
PO_Position(p) ==
    /\ pc[p] = "po_position"
    /\ LET c == call[p]
           found == {i \in 1..Len(investments) :
                        /\ investments[i].customer_id = c.customer_id
                        /\ investments[i].symbol = c.symbol
                        /\ investments[i].status = "active"}
           owned == {a \in DOMAIN accounts :
                        /\ c.customer_id = "c1"
                        /\ accounts[a].status = "active"}
       IN IF c.trade_type \notin {"buy", "sell"}
          THEN /\ Fail(p, "Trade type must be 'buy' or 'sell'")
               /\ UNCHANGED <<investments, frame>>
          ELSE IF found # {}
          THEN /\ frame' = [frame EXCEPT ![p] =
                     [NoFrame EXCEPT
                         !.investment = CHOOSE i \in found :
                                            \A j \in found : i <= j]]
               /\ pc' = [pc EXCEPT ![p] = "po_trade"]
               /\ UNCHANGED <<investments, result>>
          ELSE IF c.customer_id \notin Customers
          THEN /\ Fail(p, "Customer not found")
               /\ UNCHANGED <<investments, frame>>
          ELSE IF owned = {}
          THEN /\ Fail(p, "Customer has no active account")
               /\ UNCHANGED <<investments, frame>>
          ELSE IF c.investment_type \notin INVESTMENT_TYPES
          THEN /\ Fail(p, "Invalid investment type")
               /\ UNCHANGED <<investments, frame>>
          ELSE /\ \E a \in owned :
                     investments' =
                         Append(investments,
                                InvestmentRow(c.customer_id, a,
                                              c.investment_type, c.symbol))
               /\ frame' = [frame EXCEPT ![p] =
                     [NoFrame EXCEPT !.investment = Len(investments) + 1]]
               /\ pc' = [pc EXCEPT ![p] = "po_trade"]
               /\ UNCHANGED result
    /\ UNCHANGED <<accounts, transactions, ledger, nextId, session, locks,
                   call, pre, trades>>
    /\ UNCHANGED payvars
    /\ UNCHANGED loanvars

\* total_amount, Trade(...), db.add(trade), db.commit(), and the call of
\* execute_trade on the new trade
PO_Trade(p) ==
    /\ pc[p] = "po_trade"
    /\ trades' = Append(trades, TradeRow(call[p], frame[p].investment))
    /\ frame' = [frame EXCEPT ![p].trade = Len(trades) + 1]
    /\ pc' = [pc EXCEPT ![p] = "et_lookup"]
    /\ UNCHANGED <<accounts, transactions, ledger, nextId, session, locks,
                   call, result, pre, investments>>
    /\ UNCHANGED payvars
    /\ UNCHANGED loanvars

Call_execute_trade(p) ==
    \E id \in 1..MaxTrades :
        /\ Begin(p, [op |-> "execute_trade", trade_id |-> id], 0)
        /\ frame' = [frame EXCEPT ![p] = [NoFrame EXCEPT !.trade = id]]
        /\ pc' = [pc EXCEPT ![p] = "et_lookup"]
        /\ UNCHANGED <<accounts, transactions, ledger, nextId, session, locks>>
        /\ UNCHANGED payvars
        /\ UNCHANGED loanvars
        /\ UNCHANGED invvars

\* As ET_Lookup, but a trade of any status goes on to be executed.
ET_LookupAnyStatus(p) ==
    /\ pc[p] = "et_lookup"
    /\ LET id == frame[p].trade IN
       IF id \notin 1..Len(trades)
       THEN /\ Fail(p, "Trade not found")
            /\ UNCHANGED frame
       ELSE /\ frame' = [frame EXCEPT
                            ![p].investment = trades[id].investment_id]
            /\ pc' = [pc EXCEPT ![p] = "et_execute"]
            /\ UNCHANGED result
    /\ UNCHANGED <<accounts, transactions, ledger, nextId, session, locks,
                   call, pre>>
    /\ UNCHANGED payvars
    /\ UNCHANGED loanvars
    /\ UNCHANGED invvars

\* The trade is looked up and must be pending; its position is looked up.
ET_Lookup(p) ==
    /\ pc[p] = "et_lookup"
    /\ LET id == frame[p].trade IN
       IF id \notin 1..Len(trades)
       THEN /\ Fail(p, "Trade not found")
            /\ UNCHANGED frame
       ELSE IF trades[id].status # "pending"
       THEN /\ Fail(p, "Trade not in pending status")
            /\ UNCHANGED frame
       ELSE /\ frame' = [frame EXCEPT
                            ![p].investment = trades[id].investment_id]
            /\ pc' = [pc EXCEPT ![p] = "et_execute"]
            /\ UNCHANGED result
    /\ UNCHANGED <<accounts, transactions, ledger, nextId, session, locks,
                   call, pre>>
    /\ UNCHANGED payvars
    /\ UNCHANGED loanvars
    /\ UNCHANGED invvars

\* As Bought, but the average cost is the price of the last buy.
BoughtAtTradePrice(investment, trade) ==
    [investment EXCEPT
        !.quantity = investment.quantity + trade.quantity,
        !.average_cost = 100 * trade.price]

\* The holdings after a buy: quantity and the new average cost, costs in
\* units of 0.0001 and the quotient to the four decimal places of the column
Bought(investment, trade) ==
    LET total_cost == IF investment.average_cost # 0
                      THEN investment.quantity * investment.average_cost
                      ELSE 0
        new_total_cost == total_cost + 100 * trade.total_amount
        new_quantity == investment.quantity + trade.quantity
    IN [investment EXCEPT
           !.quantity = new_quantity,
           !.average_cost =
               IF new_quantity > 0
               THEN (2 * new_total_cost + new_quantity) \div (2 * new_quantity)
               ELSE 0]

\* The holdings after a sell the position covers.
Sold(investment, trade) ==
    LET quantity == investment.quantity - trade.quantity
    IN [investment EXCEPT
           !.quantity = quantity,
           !.status = IF quantity = 0 THEN "closed" ELSE @]

\* As ET_Execute, but a sell the position does not cover leaves the trade
\* as it was.
ET_ExecuteLeavingPending(p) ==
    /\ pc[p] = "et_execute"
    /\ LET id == frame[p].trade
           trade == trades[id]
           investment == investments[frame[p].investment]
       IN IF trade.trade_type = "sell"
             /\ investment.quantity < trade.quantity
          THEN /\ Fail(p, "Insufficient holdings")
               /\ UNCHANGED <<investments, trades>>
          ELSE /\ investments' =
                     [investments EXCEPT ![frame[p].investment] =
                         IF trade.trade_type = "buy"
                         THEN Bought(investment, trade)
                         ELSE Sold(investment, trade)]
               /\ trades' = [trades EXCEPT ![id].status = "executed"]
               /\ pc' = [pc EXCEPT ![p] = "done"]
               /\ result' = [result EXCEPT ![p] = "ok"]
    /\ UNCHANGED <<accounts, transactions, ledger, nextId, session, locks,
                   call, frame, pre>>
    /\ UNCHANGED payvars
    /\ UNCHANGED loanvars

\* The try block of execute_trade and its except clause: the holdings are
\* updated and the trade is executed, or the trade is failed; db.commit()
ET_Execute(p) ==
    /\ pc[p] = "et_execute"
    /\ LET id == frame[p].trade
           trade == trades[id]
           investment == investments[frame[p].investment]
       IN IF trade.trade_type = "sell"
             /\ investment.quantity < trade.quantity
          THEN /\ trades' = [trades EXCEPT ![id].status = "failed"]
               /\ Fail(p, "Insufficient holdings")
               /\ UNCHANGED investments
          ELSE /\ investments' =
                     [investments EXCEPT ![frame[p].investment] =
                         IF trade.trade_type = "buy"
                         THEN Bought(investment, trade)
                         ELSE Sold(investment, trade)]
               /\ trades' = [trades EXCEPT ![id].status = "executed"]
               /\ pc' = [pc EXCEPT ![p] = "done"]
               /\ result' = [result EXCEPT ![p] = "ok"]
    /\ UNCHANGED <<accounts, transactions, ledger, nextId, session, locks,
                   call, frame, pre>>
    /\ UNCHANGED payvars
    /\ UNCHANGED loanvars

\* update_market_prices(symbol, current_price): the price of every active
\* position in the symbol; db.commit()
Call_update_market_prices(p) ==
    \E symbol \in {"AAPL", "MSFT"} :
        /\ Begin(p, [op |-> "update_market_prices", symbol |-> symbol,
                     current_price |-> 15000], 0)
        /\ investments' =
               [i \in 1..Len(investments) |->
                   IF /\ investments[i].symbol = symbol
                      /\ investments[i].status = "active"
                   THEN [investments[i] EXCEPT !.current_price = 15000]
                   ELSE investments[i]]
        /\ pc' = [pc EXCEPT ![p] = "done"]
        /\ UNCHANGED <<accounts, transactions, ledger, nextId, session, locks,
                       frame, trades>>
        /\ UNCHANGED payvars
        /\ UNCHANGED loanvars

\* The accounts are open and empty; no position has been opened.
InitInv ==
    /\ accounts = [a \in OpenAccounts |-> AccountRow(0)]
    /\ transactions = {}
    /\ ledger = {}
    /\ nextId = 1
    /\ session = [p \in Procs |-> NoSession]
    /\ locks = [p \in Procs |-> NoLocks]
    /\ pc = [p \in Procs |-> "idle"]
    /\ call = [p \in Procs |-> NoCall]
    /\ frame = [p \in Procs |-> NoFrame]
    /\ result = [p \in Procs |-> "none"]
    /\ pre = [p \in Procs |-> NoPre]
    /\ payments = <<>>
    /\ bill_payments = <<>>
    /\ billers = {}
    /\ loans = <<>>
    /\ loan_payments = {}
    /\ nextPaymentId = 1
    /\ investments = <<>>
    /\ trades = <<>>

NextInv ==
    \/ Call_place_order("p1")
    \/ PO_Position("p1")
    \/ PO_Trade("p1")
    \/ Call_execute_trade("p1")
    \/ ET_Lookup("p1")
    \/ ET_Execute("p1")
    \/ Call_update_market_prices("p1")
    \/ Raise("p1")
    \/ Return("p1")

SpecInv == InitInv /\ [][NextInv]_vars

----------------------------------------------------------------------------
\* Caller p completes the execution of a trade of the given type on
\* position i in this step.
Executes(p, trade_type, i) ==
    /\ pc[p] = "et_execute"
    /\ pc'[p] = "done"
    /\ frame[p].investment = i
    /\ trades[frame[p].trade].trade_type = trade_type

\* The executed trades of position i, in the order of their placing.
ExecutedOn(i) ==
    SelectSeq([k \in 1..Len(trades) |->
                  [trade_type |-> trades[k].trade_type,
                   quantity |-> trades[k].quantity,
                   price |-> trades[k].price,
                   status |-> IF trades[k].investment_id = i
                              THEN trades[k].status ELSE "other"]],
              LAMBDA t : t.status = "executed")

BuyOf(quantity, price) ==
    [trade_type |-> "buy", quantity |-> quantity, price |-> price,
     status |-> "executed"]

(* C31: the average_cost of a position changes only in a step that executes
   a buy trade on it, and then (for a positive new quantity) is
   (old_quantity * old_average_cost + trade_total) / new_quantity to the
   four decimal places of the column, the quantity growing by the trade's;
   a step that executes a sell lowers the quantity by the trade's and
   leaves average_cost as it was.  A position whose executed trades are a
   buy of 10 at 100.00 and then a buy of 10 at 200.00 has quantity 20 and
   average_cost 150.0000. *)
C31_AverageCostIsTheRunningAverage ==
    /\ [][\A i \in 1..Len(investments) :
            LET old == investments[i]
                new == investments'[i]
            IN /\ new.average_cost # old.average_cost
                      => Executes("p1", "buy", i)
               /\ Executes("p1", "buy", i) =>
                      LET trade == trades[frame["p1"].trade]
                          cost == old.quantity * old.average_cost
                                      + 100 * trade.total_amount
                      IN /\ new.quantity = old.quantity + trade.quantity
                         /\ new.quantity > 0 =>
                                2 * Apart(new.average_cost * new.quantity,
                                          cost) <= new.quantity
               /\ Executes("p1", "sell", i) =>
                      /\ new.average_cost = old.average_cost
                      /\ new.quantity = old.quantity
                                           - trades[frame["p1"].trade].quantity
         ]_vars
    /\ [](\A i \in 1..Len(investments) :
            ExecutedOn(i) = <<BuyOf(10, 10000), BuyOf(10, 20000)>>
                => /\ investments[i].quantity = 20
                   /\ investments[i].average_cost = 1500000)

\* The two buys of the example have executed and the caller has the trade.
C31_Witness ==
    /\ Finished("p1", "place_order")
    /\ result["p1"] = "ok"
    /\ \E i \in 1..Len(investments) :
          /\ ExecutedOn(i) = <<BuyOf(10, 10000), BuyOf(10, 20000)>>
          /\ investments[i].quantity = 20

\* A sell has executed on a position that keeps units at a cost that is
\* not a whole number of cents.
C31_WitnessSell ==
    /\ Finished("p1", "place_order")
    /\ call["p1"].trade_type = "sell"
    /\ result["p1"] = "ok"
    /\ \E i \in 1..Len(investments) :
          /\ investments[i].quantity > 0
          /\ investments[i].average_cost % 100 # 0

----------------------------------------------------------------------------
\* Caller p is about to execute a sell of more units than the position has.
SellsTooMany(p) ==
    /\ pc[p] = "et_execute"
    /\ trades[frame[p].trade].trade_type = "sell"
    /\ investments[frame[p].investment].quantity
           < trades[frame[p].trade].quantity

(* C32: executing a sell whose quantity exceeds the quantity of its
   position raises the insufficient-holdings error, leaves every position
   (its quantity, average_cost and status) as it was and commits the trade
   as failed; when the caller has the error, the trade is failed and its
   position, if it existed when the call began, is as it was then. *)
C32_OversoldTradeFails ==
    /\ [][SellsTooMany("p1") =>
             /\ pc'["p1"] = "raise"
             /\ result'["p1"] = "Insufficient holdings"
             /\ investments' = investments
             /\ trades' = [trades EXCEPT
                              ![frame["p1"].trade].status = "failed"]
         ]_vars
    /\ [](pc["p1"] = "done" /\ result["p1"] = "Insufficient holdings" =>
             LET i == frame["p1"].investment IN
             /\ trades[frame["p1"].trade].status = "failed"
             /\ i <= Len(pre["p1"].investments)
                    => investments[i] = pre["p1"].investments[i])

\* A sell of 10 from a position of one unit has failed; the unit is there.
C32_Witness ==
    /\ Finished("p1", "place_order")
    /\ result["p1"] = "Insufficient holdings"
    /\ trades[frame["p1"].trade].status = "failed"
    /\ trades[frame["p1"].trade].quantity = 10
    /\ investments[frame["p1"].investment].quantity = 1
    /\ investments[frame["p1"].investment].average_cost > 0
    /\ investments[frame["p1"].investment].status = "active"

----------------------------------------------------------------------------
(* C33: the status of a Trade changes only from pending, and then to
   executed or to failed; execute_trade on a trade that is not pending
   raises "Trade not in pending status" and leaves every Trade and every
   Investment row as it was; and the quantity of a position changes only in
   a step that takes one of its trades from pending to executed, so that no
   trade changes the quantity of its position twice. *)
C33_TradeStatusIsTerminal ==
    /\ [][/\ \A k \in 1..Len(trades) :
                trades'[k].status # trades[k].status =>
                    /\ trades[k].status = "pending"
                    /\ trades'[k].status \in {"executed", "failed"}
          /\ \A i \in 1..Len(investments) :
                investments'[i].quantity # investments[i].quantity =>
                    \E k \in 1..Len(trades) :
                        /\ trades[k].investment_id = i
                        /\ trades[k].status = "pending"
                        /\ trades'[k].status = "executed"
          /\ /\ pc["p1"] = "et_lookup"
             /\ frame["p1"].trade \in 1..Len(trades)
             /\ trades[frame["p1"].trade].status # "pending"
             => /\ result'["p1"] = "Trade not in pending status"
                /\ pc'["p1"] = "raise"
                /\ UNCHANGED invvars
         ]_vars
    /\ [](/\ pc["p1"] = "done"
          /\ result["p1"] = "Trade not in pending status"
          => /\ investments = pre["p1"].investments
             /\ trades = pre["p1"].trades)

\* execute_trade was called on an executed trade and has been refused; the
\* position holds what the one execution gave it.
C33_Witness ==
    /\ Finished("p1", "execute_trade")
    /\ result["p1"] = "Trade not in pending status"
    /\ trades[call["p1"].trade_id].status = "executed"
    /\ trades[call["p1"].trade_id].trade_type = "buy"
    /\ Len(trades) = 1
    /\ investments[trades[call["p1"].trade_id].investment_id].quantity
           = trades[call["p1"].trade_id].quantity
    /\ trades[call["p1"].trade_id].quantity > 0

\* As above for a failed trade.
C33_WitnessFailed ==
    /\ Finished("p1", "execute_trade")
    /\ result["p1"] = "Trade not in pending status"
    /\ trades[call["p1"].trade_id].status = "failed"

----------------------------------------------------------------------------
(* C40: when place_order has been rejected, the Investment rows are those
   of the moment the call began; a rejected sell for a symbol in which the
   customer held no active position has added no position. *)
C40_RejectedOrderLeavesPositions ==
    Finished("p1", "place_order") /\ result["p1"] # "ok"
        => investments = pre["p1"].investments

\* A sell of a symbol the customer had no position in has been rejected,
\* and a new active position of zero units in the symbol is committed.
C40_Witness ==
    /\ Finished("p1", "place_order")
    /\ call["p1"].trade_type = "sell"
    /\ result["p1"] = "Insufficient holdings"
    /\ pre["p1"].investments = <<>>
    /\ Len(investments) = 1
    /\ investments[1].symbol = call["p1"].symbol
    /\ investments[1].customer_id = call["p1"].customer_id
    /\ investments[1].status = "active"
    /\ investments[1].quantity = 0

\* An order rejected before the position is looked for or opened, and an
\* oversold order on a position that existed, leave the positions alone.
C40_OtherRejectionsLeavePositions ==
    /\ Finished("p1", "place_order")
    /\ result["p1"] # "ok"
    /\ \/ result["p1"] # "Insufficient holdings"
       \/ frame["p1"].investment <= Len(pre["p1"].investments)
    => investments = pre["p1"].investments

----------------------------------------------------------------------------
\* The loan row an accepted create_loan_application has just stored.
Applied(p) ==
    /\ Finished(p, "create_loan_application")
    /\ result[p] = "ok"
    /\ Len(loans) = Len(pre[p].loans) + 1

(* C39: the Loan stored by create_loan_application has the default rate of
   its type when the caller supplied no rate; when the caller supplied a
   rate, a rate of zero included, the loan has the supplied rate and the
   EMI computed from it (principal / tenure for a rate of zero). *)
C39_SuppliedRateIsStored ==
    Applied("p1") =>
        LET c == call["p1"]
            loan == loans[Len(loans)]
        IN IF c.interest_rate = <<>>
           THEN loan.interest_rate = LOAN_TYPES[c.loan_type].default_rate
           ELSE /\ loan.interest_rate = c.interest_rate[1]
                /\ loan.emi_amount =
                       Stored(calculate_emi(c.principal_amount,
                                            c.interest_rate[1],
                                            c.tenure_months))

\* A personal loan of 12000.00 over 12 months was applied for at a rate of
\* zero; it is stored at 8.99 with an instalment above 1000.00.
C39_Witness ==
    /\ Applied("p1")
    /\ call["p1"].interest_rate = <<0>>
    /\ call["p1"].loan_type = "personal"
    /\ call["p1"].principal_amount = 1200000
    /\ call["p1"].tenure_months = 12
    /\ loans[Len(loans)].interest_rate = 899
    /\ loans[Len(loans)].emi_amount > 100000

\* The claim holds for no rate and for every rate other than zero.
C39_HoldsForNonZeroRates ==
    Applied("p1") /\ call["p1"].interest_rate # <<0>> =>
        LET c == call["p1"]
            loan == loans[Len(loans)]
        IN IF c.interest_rate = <<>>
           THEN loan.interest_rate = LOAN_TYPES[c.loan_type].default_rate
           ELSE /\ loan.interest_rate = c.interest_rate[1]
                /\ loan.emi_amount =
                       Stored(calculate_emi(c.principal_amount,
                                            c.interest_rate[1],
                                            c.tenure_months))

----------------------------------------------------------------------------
(* C38: every LoanPayment row that is paid is, after any step of the loan
   engine, still there as a paid row of the same loan and instalment
   number with the same paid amount. *)
C38_PaidRowStaysPaid ==
    [][\A r \in loan_payments :
          r.status = "paid" =>
              \E x \in loan_payments' :
                  /\ x.loan_id = r.loan_id
                  /\ x.payment_number = r.payment_number
                  /\ x.status = "paid"
                  /\ x.paid_amount = r.paid_amount]_vars

\* generate_payment_schedule has run on a loan that had a paid instalment:
\* every row of the loan is pending and nothing records the payment.
C38_Witness ==
    /\ Finished("p1", "generate_payment_schedule")
    /\ result["p1"] = "ok"
    /\ \E r \in pre["p1"].loan_payments :
          /\ r.loan_id = call["p1"].loan_id
          /\ r.status = "paid"
          /\ r.paid_amount > 0
    /\ RowsOf(call["p1"].loan_id) # {}
    /\ \A x \in RowsOf(call["p1"].loan_id) :
          x.status = "pending" /\ x.paid_amount = 0

----------------------------------------------------------------------------
\* Every row of the schedule of loan id has been paid in full.
AllRowsPaid(id) ==
    /\ NumberedSchedule(id)
    /\ loans[id].tenure_months > 0
    /\ \A r \in RowsOf(id) : r.status = "paid"

(* C37: a loan all of whose tenure_months schedule rows are paid is closed
   and has an outstanding_balance of zero. *)
C37_PaidUpLoanIsClosed ==
    \A id \in 1..Len(loans) :
        AllRowsPaid(id) =>
            /\ loans[id].status = "closed"
            /\ loans[id].outstanding_balance = 0

\* Both instalments of a loan of 10.03 over two months, 4.99 and 5.03 of
\* principal, are paid; the loan still has one cent outstanding.
C37_Witness ==
    \E id \in 1..Len(loans) :
        /\ AllRowsPaid(id)
        /\ loans[id].principal_amount = 1003
        /\ loans[id].tenure_months = 2
        /\ SumOfPrincipal(RowsOf(id)) = 1002
        /\ loans[id].outstanding_balance = 1
        /\ loans[id].status # "closed"

\* A loan whose rows are all paid is closed with nothing outstanding when
\* the principal components of its rows add up to its principal or more.
C37_HoldsWhenScheduleRepaysPrincipal ==
    \A id \in 1..Len(loans) :
        AllRowsPaid(id)
        /\ SumOfPrincipal(RowsOf(id)) >= loans[id].principal_amount
        => /\ loans[id].status = "closed"
           /\ loans[id].outstanding_balance = 0

----------------------------------------------------------------------------
\* p's execute_payment (called directly or by initiate_payment) has ended
\* on the internal instruction id, which was pending and names the
\* existing account of this bank as its beneficiary.
ExecutedInternal(p, id) ==
    /\ pc[p] = "done"
    /\ call[p].op \in {"execute_payment", "initiate_payment"}
    /\ id = frame[p].payment
    /\ id \in DOMAIN payments
    /\ (id \notin DOMAIN pre[p].payments
        \/ pre[p].payments[id].status = "pending")
    /\ payments[id].status \in {"completed", "failed"}
    /\ payments[id].payment_method = "internal"
    /\ payments[id].beneficiary_account \in DOMAIN pre[p].accounts

\* The balances after amount has left account from and reached account to.
Moved(rows, from, to, amount) ==
    LET debited == [a \in DOMAIN rows |->
                       IF a = from THEN rows[a].balance - amount
                       ELSE rows[a].balance]
    IN [a \in DOMAIN rows |->
           IF a = to THEN debited[a] + amount ELSE debited[a]]

(* C36: an execute_payment of an internal instruction whose beneficiary
   account exists either completes, with the source balance lowered by the
   amount and the beneficiary balance raised by the amount, or fails, with
   the instruction marked failed and both balances as before the call. *)
C36_InternalPaymentAllOrNothing ==
    \A id \in DOMAIN payments :
        ExecutedInternal("p1", id) =>
            LET from == payments[id].account_id
                to == payments[id].beneficiary_account
                now == [a \in DOMAIN accounts |-> accounts[a].balance]
                before == [a \in DOMAIN accounts |->
                              pre["p1"].accounts[a].balance]
            IN IF payments[id].status = "completed"
               THEN now = Moved(pre["p1"].accounts, from, to,
                                payments[id].amount)
               ELSE now[from] = before[from] /\ now[to] = before[to]

\* An internal payment to another existing account has failed for lack of
\* funds, and the beneficiary holds the amount all the same.
C36_Witness ==
    \E id \in DOMAIN payments :
        /\ ExecutedInternal("p1", id)
        /\ payments[id].status = "failed"
        /\ result["p1"] = "Insufficient funds"
        /\ payments[id].beneficiary_account # payments[id].account_id
        /\ payments[id].amount > 0
        /\ accounts[payments[id].beneficiary_account].balance
             = pre["p1"].accounts[payments[id].beneficiary_account].balance
                   + payments[id].amount
        /\ accounts[payments[id].account_id].balance
             = pre["p1"].accounts[payments[id].account_id].balance

\* A completed internal payment has moved the amount from the source to the
\* beneficiary.
C36_CompletedPaymentMovesTheAmount ==
    \A id \in DOMAIN payments :
        ExecutedInternal("p1", id) /\ payments[id].status = "completed" =>
            [a \in DOMAIN accounts |-> accounts[a].balance]
                = Moved(pre["p1"].accounts, payments[id].account_id,
                        payments[id].beneficiary_account,
                        payments[id].amount)

----------------------------------------------------------------------------
(* C35: every account whose status is closed has a balance of exactly
   zero, whatever is posted after close_account has succeeded. *)
C35_ClosedAccountHoldsNothing ==
    \A a \in DOMAIN accounts :
        accounts[a].status = "closed" => accounts[a].balance = 0

\* A deposit on an account that was closed when the call began has been
\* accepted: the closed account holds money.
C35_Witness ==
    /\ Finished("p1", "process_transaction")
    /\ result["p1"] = "ok"
    /\ call["p1"].transaction_type = "deposit"
    /\ call["p1"].account_id \in DOMAIN pre["p1"].accounts
    /\ pre["p1"].accounts[call["p1"].account_id].status = "closed"
    /\ pre["p1"].accounts[call["p1"].account_id].balance = 0
    /\ accounts[call["p1"].account_id].status = "closed"
    /\ accounts[call["p1"].account_id].balance = call["p1"].amount
    /\ call["p1"].amount > 0

----------------------------------------------------------------------------
(* Two callers transferring at the same time, each in a thread and a
   session of its own *)

\* The steps of caller p inside a transfer.
TransferSteps(p) ==
    \/ ProcessTransactionSteps(p)
    \/ TF_Credit(p)
    \/ TF_Exit(p)

\* Either caller starts a transfer of an amount above zero while fewer than
\* MaxPosts rows are committed, or takes the next step of its transfer.
NextCross ==
    \E p \in Procs :
        \/ /\ Cardinality(transactions) < MaxPosts
           /\ Call_transfer_funds(p)
           /\ call'[p].amount > 0
        \/ TransferSteps(p)

SpecCross == Init /\ [][NextCross]_vars

\* Each thread is scheduled again and again, so a step it can take for good
\* is taken; and the database hands a released row lock to the query that
\* waits for it, so a query that finds the row free again and again gets
\* its lock.
FairCross ==
    /\ SpecCross
    /\ \A p \in Procs : WF_vars(TransferSteps(p)) /\ SF_vars(PT_Lock(p))

\* Caller p waits for a row lock that caller q holds.
WaitsFor(p, q) ==
    /\ pc[p] = "pt_lock"
    /\ frame[p].account_id \in DOMAIN VisibleAccounts(p)
    /\ locks[q][frame[p].account_id] # "none"

\* p and q are inside transfers in opposite directions between two accounts.
Opposite(p, q) ==
    /\ call[p].op = "transfer_funds"
    /\ call[q].op = "transfer_funds"
    /\ call[p].from_account_id = call[q].to_account_id
    /\ call[p].to_account_id = call[q].from_account_id
    /\ call[p].from_account_id # call[p].to_account_id

(* C34: in no reachable state do two callers each wait for an account lock
   the other holds, and under fair scheduling every transfer_funds call that
   has begun returns, with its result or with its error; so do two
   transfers that run at the same time in opposite directions. *)
C34_TransfersTerminate ==
    /\ [](\A p \in Procs : \A q \in Procs \ {p} :
             ~(WaitsFor(p, q) /\ WaitsFor(q, p)))
    /\ \A p \in Procs : (pc[p] \notin {"idle", "done"}) ~> (pc[p] = "done")

\* Two transfers in opposite directions are under way, and one waits for
\* the row the other has locked.
C34_Witness ==
    /\ Opposite("p1", "p2")
    /\ WaitsFor("p1", "p2")
    /\ pc["p2"] \notin {"idle", "done"}

\* Two transfers in opposite directions that ran at the same time have both
\* returned their rows.
C34_WitnessBothReturn ==
    /\ Opposite("p1", "p2")
    /\ pc["p1"] = "done" /\ result["p1"] = "ok"
    /\ pc["p2"] = "done" /\ result["p2"] = "ok"
    /\ Cardinality(transactions) = 4

====
